---------------------------- MODULE Spec2Model ----------------------------
(***************************************************************************)
(* A model of the stateful core of bot.py: the durable store (load_data,  *)
(* save_data), the reminder scheduler (check_reminders, set_reminder), the *)
(* ticket lifecycle (create_ticket, close_ticket, on_message and the       *)
(* inactivity sweep check_ticket_timeouts) and the polls (advanced_poll,   *)
(* end_poll).                                                              *)
(*                                                                         *)
(* The bot runs on one cooperative event loop: a handler runs without      *)
(* interruption from one await to the next.  Every action below is one     *)
(* such uninterrupted piece of a handler; the awaits are the points at     *)
(* which the other actions may be taken.  A collaborator call (a Discord   *)
(* request) either returns or raises; which one is an input of the action  *)
(* that resumes after the await.                                           *)
(*                                                                         *)
(* Time is datetime.now().timestamp() in whole seconds.  asyncio.sleep     *)
(* returns after some positive amount of time; the model does not fix the  *)
(* amount, so a sweep may start at any clock value later than the start of *)
(* the previous one.                                                       *)
(***************************************************************************)
EXTENDS Integers, Sequences, FiniteSets, TLC

VARIABLES
    now,            \* the wall clock, in seconds
    diskFaulty,     \* whether open()/json.dump may raise in this run
    (* reminders *)
    reminders,      \* the module-level list `reminders`
    remindersFile,  \* the contents of reminders.json
    rs,             \* check_reminders: its position and its locals (cur: the
                    \* clock it read last; prev, history: the one before;
                    \* boots, history: the restarts of the process)
    nextMsg,        \* the text of the next reminder message (texts are distinct)
    att,            \* history: per reminder, the delivery attempts made so far
    attSweep,       \* history: per reminder, the delivery attempts of the current sweep
    sent,           \* history: per reminder, the notifications sent successfully
    dueOf,          \* history: per reminder, the due_time it was created with
    rDirty,         \* history: the last save_data(reminders, ...) failed
    remindH,        \* history: the answer to the last remind command and the
                    \* channel it was posted in
    (* tickets *)
    tickets,        \* the module-level dict `tickets`
    ticketsFile,    \* the contents of tickets.json
    chanAlive,      \* per channel id, whether the channel exists at Discord
    sw,             \* check_ticket_timeouts: its position and its locals
    closeH,         \* the close_ticket invocations in flight
    openH,          \* the create_ticket invocations in flight
    nextChan,       \* the id Discord gives the next channel it creates
    heard,          \* history: per ticket, the time it was stored or, if later,
                    \* the time a member's message was last seen in its channel
    (* store *)
    st,             \* one collection, its file and the progress of a save
    archive,        \* one transcript on its way to the archive channel: its
                    \* length, the length of the ticket's id, the messages
                    \* dealt with and the lengths of those sent
    named,          \* history: per channel, the guild and the number of the
                    \* name it was created with
    gw,             \* the gateway's ready events: how many have fired, the
                    \* on_ready invocations in flight and, per kind, the
                    \* positions of the background tasks created
    (* polls *)
    polls,          \* the module-level dict `polls`
    pollsFile,      \* the contents of polls.json
    reactions,      \* per poll message, the reaction count of each marker
    nextPoll,       \* the id Discord gives the next poll message
    pollH,          \* the advanced_poll invocation in flight
    endH,           \* the end_poll invocations in flight
    ended,          \* history: per poll, the results reported and the removals
    tally           \* the tally on its own: its input and its result

rvars == <<reminders, remindersFile, rs, nextMsg, att, attSweep, sent, dueOf, rDirty,
          remindH>>
tvars == <<tickets, ticketsFile, chanAlive, sw, closeH, openH, nextChan, heard>>
svars == <<st, archive, named, gw>>
pvars == <<polls, pollsFile, reactions, nextPoll, pollH, endH, ended, tally>>
vars == <<now, diskFaulty, rvars, tvars, svars, pvars>>

-----------------------------------------------------------------------------
(* Durable store: load_data and save_data                                  *)

\* A file is missing, holds one complete JSON document, holds no document
\* (the beginning of one: it was opened for writing and the dump did not
\* finish; or anything else json.load rejects), or cannot be opened.
MissingFile == [st |-> "missing", data |-> <<>>]
ValidFile(data) == [st |-> "valid", data |-> data]
PartialFile == [st |-> "partial", data |-> <<>>]
UnreadableFile == [st |-> "unreadable", data |-> <<>>]

\* The values of the store on its own: a list or a dict of entries.  An
\* entry has the keys under which it is stored, outermost first (none for
\* the element of a list), each a str or an int, and says whether the
\* sequences in its fields are lists or tuples.
EmptyList == [type |-> "list", items |-> <<>>]
EmptyDict == [type |-> "dict", items |-> <<>>]
StrKey(n) == [t |-> "str", v |-> n]
IntKey(n) == [t |-> "int", v |-> n]

\* The default parameter left at None, and an exception in place of a value.
NoDefault == [type |-> "none"]
Raised == [type |-> "raised"]

\* json.dump: the document of a value.  The key of a dict is written as a
\* string whatever it was, and a tuple is written as a list.
JsonEntry(e) ==
    [e EXCEPT !.path = [j \in DOMAIN @ |-> StrKey(@[j].v)],
              !.seqs = IF @ = "tuple" THEN "list" ELSE @]
json_dumps(data) == [data EXCEPT !.items = [k \in DOMAIN @ |-> JsonEntry(@[k])]]

\* json.load: the value a document denotes (string keys, lists).
json_loads(doc) == doc

\* Lines 87-88, open(file_path, 'r') and json.load(f): the value, or the
\* exception when the file cannot be opened or holds no document.
read_json(file) == IF file.st = "valid" THEN json_loads(file.data) ELSE Raised

\* A variant of load_data without the except clause.
load_data_uncaught(file, default) ==
    IF file.st = "missing" THEN default ELSE read_json(file)

\* load_data: the value of the file's document, or the default (an empty dict
\* when none is given) when the file does not exist or reading it raises.
load_data(file, default) ==
    LET d == IF default # NoDefault THEN default ELSE EmptyDict
    IN  IF file.st = "missing" THEN d
        ELSE LET v == read_json(file)
             IN  IF v = Raised THEN d ELSE v

\* open(file_path, 'w'): the file exists and is empty from here on.
open_w(file) == PartialFile

\* A variant of save_data that never rewrites a file that is there.
save_data_keeps(data, file, outcome) ==
    CASE outcome = "ok" -> IF file.st = "valid" THEN file ELSE ValidFile(data)
      [] outcome = "open_fails" -> file
      [] outcome = "write_fails" -> PartialFile

\* A variant of save_data that cannot write to a file left truncated.
save_data_stale(data, file, outcome) ==
    CASE outcome = "ok" -> IF file.st = "partial" THEN file ELSE ValidFile(data)
      [] outcome = "open_fails" -> file
      [] outcome = "write_fails" -> PartialFile

\* save_data: the file after the call, for the collections of the handlers
\* below, which are held in the form their documents denote (their keys are
\* made with str(), lines 711, 890-893, and their sequences are lists), so
\* that the document of one is the collection itself.  open() raises and the
\* file is as it was; or the file is truncated and json.dump raises part way;
\* or the dump completes.  The exception is logged, never raised to the
\* caller.
save_data(data, file, outcome) ==
    CASE outcome = "ok" -> ValidFile(data)
      [] outcome = "open_fails" -> file
      [] outcome = "write_fails" -> open_w(file)

SaveOutcomes == IF diskFaulty THEN {"ok", "open_fails", "write_fails"} ELSE {"ok"}

\* Whether open() or json.dump returns (TRUE) or raises.
DiskOks == IF diskFaulty THEN BOOLEAN ELSE {TRUE}

-----------------------------------------------------------------------------
(* Clock                                                                   *)

\* The instants at which the reminder scheduler's clock is observed.
RClock == {0, 1, 29, 30, 31, 60}

TickR ==
    /\ \E t \in RClock : t > now /\ now' = t
    /\ UNCHANGED <<diskFaulty, rvars, tvars, svars, pvars>>

-----------------------------------------------------------------------------
(* Reminders: the time argument of set_reminder                            *)

MaxReminders == 2

Digit == [c \in {"0", "1", "2", "3", "4", "5", "6", "7", "8", "9"} |->
            CASE c = "0" -> 0 [] c = "1" -> 1 [] c = "2" -> 2 [] c = "3" -> 3
              [] c = "4" -> 4 [] c = "5" -> 5 [] c = "6" -> 6 [] c = "7" -> 7
              [] c = "8" -> 8 [] c = "9" -> 9]

RECURSIVE DigitsValue(_)
DigitsValue(s) ==
    IF s = <<>> THEN 0
    ELSE 10 * DigitsValue(SubSeq(s, 1, Len(s) - 1)) + Digit[s[Len(s)]]

AllDigits(s) == s # <<>> /\ \A k \in 1..Len(s) : s[k] \in DOMAIN Digit

\* int(text): [ok, val]; ok is FALSE where int raises ValueError.
ParseInt(s) ==
    IF s # <<>> /\ s[1] \in {"-", "+"}
    THEN LET d == Tail(s)
         IN  IF AllDigits(d)
             THEN [ok |-> TRUE, val |-> IF s[1] = "-" THEN 0 - DigitsValue(d) ELSE DigitsValue(d)]
             ELSE [ok |-> FALSE, val |-> 0]
    ELSE IF AllDigits(s) THEN [ok |-> TRUE, val |-> DigitsValue(s)]
         ELSE [ok |-> FALSE, val |-> 0]

Lower(c) ==
    CASE c = "S" -> "s" [] c = "M" -> "m" [] c = "H" -> "h" [] c = "D" -> "d"
      [] OTHER -> c

\* The seconds of a <number><s/m/h/d> argument: [ok, seconds]; ok is FALSE
\* where the handler answers "Invalid time format".
ParseTime(time) ==
    LET n == ParseInt(SubSeq(time, 1, Len(time) - 1))
    IN  IF ~n.ok THEN [ok |-> FALSE, seconds |-> 0]
        ELSE LET unit == Lower(time[Len(time)])
             IN  CASE unit = "s" -> [ok |-> TRUE, seconds |-> n.val]
                   [] unit = "m" -> [ok |-> TRUE, seconds |-> n.val * 60]
                   [] unit = "h" -> [ok |-> TRUE, seconds |-> n.val * 3600]
                   [] unit = "d" -> [ok |-> TRUE, seconds |-> n.val * 86400]
                   [] OTHER -> [ok |-> FALSE, seconds |-> 0]

\* The time arguments the remind command is given.
TimeArgs ==
    { <<"3", "0", "s">>, <<"1", "M">>, <<"0", "s">>, <<"-", "1", "s">>,
      <<"5", "x">>, <<"a", "s">>, <<"s">> }

\* Those of them given where the two clock reads are studied.
ClockArgs == { <<"1", "s">>, <<"3", "0", "s">>, <<"0", "s">>, <<"5", "x">> }

\* Those of them given where the refusals are studied: a valid one, a
\* duration of zero, an unknown unit and no number.
RemindArgs == { <<"3", "0", "s">>, <<"0", "s">>, <<"5", "x">>, <<"a", "s">> }

Msgs(seq) == {seq[k].message : k \in 1..Len(seq)}
\* Line 104: the list a start would load from the file.
FileReminders(file) == IF file.st = "valid" THEN file.data ELSE <<>>
FileMsgs(file) == IF file.st = "valid" THEN Msgs(file.data) ELSE {}

-----------------------------------------------------------------------------
(* Reminders: check_reminders                                              *)

\* A variant of IsDue that compares the time the reminder was set.
IsDue_BySetTime(r, current_time) == r.set_time <= current_time

\* r['due_time'] <= current_time
IsDue(r, current_time) == r.due_time <= current_time

\* list.remove(x): the list without its first element equal to x.
RECURSIVE Remove(_, _)
Remove(seq, x) ==
    IF seq = <<>> THEN <<>>
    ELSE IF Head(seq) = x THEN Tail(seq)
    ELSE <<Head(seq)>> \o Remove(Tail(seq), x)

InList(seq, x) == \E k \in 1..Len(seq) : seq[k] = x

\* The for loop moves to reminders_due[i]: bot.get_channel is looked up
\* (found or None) and the task awaits bot.fetch_user; past the last
\* element the task awaits asyncio.sleep(30).
RNextIter(i) ==
    IF i > Len(rs.due)
    THEN /\ rs' = [rs EXCEPT !.pc = "sleep", !.i = i, !.chan = FALSE]
         /\ UNCHANGED <<att, attSweep>>
    ELSE /\ \E c \in BOOLEAN : rs' = [rs EXCEPT !.pc = "fetch", !.i = i, !.chan = c]
         /\ att' = [att EXCEPT ![rs.due[i].message] = @ + 1]
         /\ attSweep' = [attSweep EXCEPT ![rs.due[i].message] = @ + 1]

\* reminders.remove(reminder); save_data(reminders, REMINDERS_FILE).  remove
\* raises ValueError when the reminder is not in the list, and the save is
\* then skipped.
RRemoveAndSave(reminder, o) ==
    IF InList(reminders, reminder)
    THEN /\ reminders' = Remove(reminders, reminder)
         /\ remindersFile' = save_data(reminders', remindersFile, o)
         /\ rDirty' = (o # "ok")
    ELSE UNCHANGED <<reminders, remindersFile, rDirty>>

\* Python's None: a value not there, a key that is absent.
None == 0 - 1

\* check_reminders as the process starts it, after so many restarts.
RsStart(boots) ==
    [pc |-> "sleep", cur |-> None, prev |-> None, due |-> <<>>, i |-> 1,
     chan |-> FALSE, boots |-> boots]

\* One pass of the while loop up to its first await: the clock is read and
\* the due reminders are selected.
check_reminders_scan ==
    /\ rs.pc = "sleep"
    /\ now > rs.cur
    /\ LET due == SelectSeq(reminders, LAMBDA r : IsDue(r, now))
       IN  IF due = <<>>
           THEN /\ rs' = [pc |-> "sleep", cur |-> now, prev |-> rs.cur, due |-> due,
                            i |-> 1, chan |-> FALSE, boots |-> rs.boots]
                /\ att' = att
                /\ attSweep' = [m \in 1..MaxReminders |-> 0]
           ELSE /\ \E c \in BOOLEAN :
                     rs' = [pc |-> "fetch", cur |-> now, prev |-> rs.cur, due |-> due,
                            i |-> 1, chan |-> c, boots |-> rs.boots]
                /\ att' = [att EXCEPT ![due[1].message] = @ + 1]
                /\ attSweep' = [m \in 1..MaxReminders |-> IF m = due[1].message THEN 1 ELSE 0]
    /\ UNCHANGED <<now, diskFaulty, reminders, remindersFile, nextMsg, sent,
                   dueOf, rDirty, tvars, svars, pvars, remindH>>

\* bot.fetch_user returns or raises.  With a user and no channel the send is
\* skipped and the reminder is removed; when fetch_user raises the except
\* clause logs and the loop goes on, the reminder still in the list.
check_reminders_fetch(ok, o) ==
    /\ rs.pc = "fetch"
    /\ IF ok /\ rs.chan
       THEN /\ rs' = [rs EXCEPT !.pc = "send"]
            /\ UNCHANGED <<reminders, remindersFile, rDirty, att, attSweep>>
       ELSE /\ IF ok THEN RRemoveAndSave(rs.due[rs.i], o)
                     ELSE UNCHANGED <<reminders, remindersFile, rDirty>>
            /\ RNextIter(rs.i + 1)
    /\ UNCHANGED <<now, diskFaulty, nextMsg, sent, dueOf, tvars, svars, pvars,
                   remindH>>

\* A variant of check_reminders_send that leaves the reminder in the list.
check_reminders_send_keeps(ok, o) ==
    /\ rs.pc = "send"
    /\ IF ok
       THEN sent' = [sent EXCEPT ![rs.due[rs.i].message] = @ + 1]
       ELSE UNCHANGED sent
    /\ UNCHANGED <<reminders, remindersFile, rDirty>>
    /\ RNextIter(rs.i + 1)
    /\ UNCHANGED <<now, diskFaulty, nextMsg, dueOf, tvars, svars, pvars,
                   remindH>>

\* channel.send returns or raises.
check_reminders_send(ok, o) ==
    /\ rs.pc = "send"
    /\ IF ok
       THEN /\ sent' = [sent EXCEPT ![rs.due[rs.i].message] = @ + 1]
            /\ RRemoveAndSave(rs.due[rs.i], o)
       ELSE UNCHANGED <<sent, reminders, remindersFile, rDirty>>
    /\ RNextIter(rs.i + 1)
    /\ UNCHANGED <<now, diskFaulty, nextMsg, dueOf, tvars, svars, pvars,
                   remindH>>

MaxCrashes == 1
MaxSends == 2

\* The process is killed and started again: lines 103-105 load the reminders
\* from the file and check_reminders starts anew.  Where the process was
\* killed while channel.send was awaited, or after it had returned and
\* before the lines 142-145 were done, the notification may have been
\* delivered.
reminders_crash(delivered) ==
    /\ rs.boots < MaxCrashes
    /\ delivered => rs.pc = "send" /\ sent[rs.due[rs.i].message] < MaxSends
    /\ sent' = IF delivered THEN [sent EXCEPT ![rs.due[rs.i].message] = @ + 1] ELSE sent
    /\ reminders' = FileReminders(remindersFile)
    /\ rs' = RsStart(rs.boots + 1)
    /\ rDirty' = FALSE
    /\ attSweep' = [m \in 1..MaxReminders |-> 0]
    /\ remindH' = [text |-> "", ch |-> 0]
    /\ UNCHANGED <<now, diskFaulty, remindersFile, nextMsg, att, dueOf, tvars,
                   svars, pvars>>

-----------------------------------------------------------------------------
(* Tickets: the transcript sent to the archive channel                     *)

\* Lines 174-181 and 941-948, on the lengths of the strings: the lengths of
\* the messages sent for a transcript_text of len characters and a ticket
\* id of id characters.  Each message is the header
\* "**Transcript for Ticket " (24), the id, "**\n" (3), and then a chunk
\* transcript_text[i:i+2000] for i in range(0, len, 2000), or the whole
\* text where it has no more than 2000 characters.
TranscriptMessages(len, id) ==
    LET header == 24 + id + 3
        starts == [k \in 1..((len + 1999) \div 2000) |-> (k - 1) * 2000]
        slice(i, j) == (IF j < len THEN j ELSE len) - i
    IN  IF len > 2000
        THEN [k \in 1..Len(starts) |-> header + slice(starts[k], starts[k] + 2000)]
        ELSE <<header + len>>

ArchiveStart(len, id) == [len |-> len, id |-> id, i |-> 0, sent |-> <<>>]

\* One await transcript_channel.send(...) returns (ok) or raises, and then
\* the messages that remain are not sent.
archive_send(ok) ==
    LET msgs == TranscriptMessages(archive.len, archive.id)
    IN  /\ archive.id > 0
        /\ archive.i < Len(msgs)
        /\ archive' = IF ok
                      THEN [archive EXCEPT !.i = @ + 1,
                                           !.sent = Append(@, msgs[archive.i + 1])]
                      ELSE [archive EXCEPT !.i = Len(msgs)]
        /\ UNCHANGED <<now, diskFaulty, rvars, tvars, st, named, gw, pvars>>

-----------------------------------------------------------------------------
(* on_ready and the background tasks it creates                            *)

MaxReady == 3

\* The gateway fires the ready event, on connecting and again whenever a
\* session cannot be resumed: on_ready runs its lines 200-201 and awaits
\* bot.change_presence.
ready_event ==
    /\ gw.fired < MaxReady
    /\ gw' = [gw EXCEPT !.fired = @ + 1, !.handlers = @ + 1]
    /\ UNCHANGED <<now, diskFaulty, rvars, tvars, st, archive, named, pvars>>

\* bot.change_presence returns and the lines 210-211 create one task of each
\* kind, each to await bot.wait_until_ready(); or it raises and the handler
\* ends.
on_ready(ok) ==
    /\ gw.handlers > 0
    /\ gw' = [gw EXCEPT !.handlers = @ - 1,
                        !.tasks = IF ok THEN [kind \in DOMAIN @ |-> Append(@[kind], "wait")]
                                        ELSE @]
    /\ UNCHANGED <<now, diskFaulty, rvars, tvars, st, archive, named, pvars>>

\* bot.wait_until_ready() returns in task k of a kind (lines 128, 154): the
\* task enters its while loop, which it leaves only when the bot is closed.
task_ready(kind, k) ==
    /\ k \in 1..Len(gw.tasks[kind])
    /\ gw.tasks[kind][k] = "wait"
    /\ gw' = [gw EXCEPT !.tasks[kind][k] = "loop"]
    /\ UNCHANGED <<now, diskFaulty, rvars, tvars, st, archive, named, pvars>>

-----------------------------------------------------------------------------
(* Tickets: the collection                                                 *)

MaxTickets == 2
Guilds == {1, 2}
Chans == 1..MaxTickets
\* User 1 opens the tickets; user 2 is another member, with or without the
\* manage_channels permission.
Users == {1, 2}
Authors == {1}
TIMEOUT == 86400

\* The instants at which the ticket code's clock is observed.
TClock == {0, 1, 86400, 86401}

TickT ==
    /\ \E t \in TClock : t > now /\ now' = t
    /\ UNCHANGED <<diskFaulty, rvars, tvars, svars, pvars>>

\* The instants at which it is observed where !closeticket is studied.
CClock == {0, 1, 86401}

TickC ==
    /\ \E t \in CClock : t > now /\ now' = t
    /\ UNCHANGED <<diskFaulty, rvars, tvars, svars, pvars>>

\* The instants at which it is observed where the refusals are studied.
VClock == {0, 1}

TickV ==
    /\ \E t \in VClock : t > now /\ now' = t
    /\ UNCHANGED <<diskFaulty, rvars, tvars, svars, pvars>>

\* closed_by and closed_at are keys a record gets when close_ticket closes
\* it; None stands for a key that is absent.
NoTicket == [user_id |-> None, status |-> "none", last_activity |-> None,
             closed_by |-> None, closed_at |-> None]

\* tickets: {guild id: {channel id: record}}.  A record's reason and created_at
\* are written once and never read, and are left out.  Both dicts keep insertion
\* order: guilds is the order of the outer dict, chans[g] that of
\* tickets[g], rec the records by channel id (channel ids are unique).
EmptyTickets == [guilds |-> <<>>, chans |-> [g \in Guilds |-> <<>>],
                 rec |-> [c \in Chans |-> NoTicket]]

\* str(guild.id) in tickets and channel_id in tickets[str(guild.id)]
Tracked(tk, ch) == ch \in Chans /\ tk.rec[ch].status # "none"

HasGuild(tk, g) == \E k \in 1..Len(tk.guilds) : tk.guilds[k] = g

FileTickets(file) == load_data(file, EmptyTickets)

\* A variant of Touch in which activity reopens the ticket.
Touch_Reopens(tk, ch, t) ==
    IF ch \in Chans /\ tk.rec[ch].status # "none"
    THEN [tk EXCEPT !.rec[ch].last_activity = t, !.rec[ch].status = "open"]
    ELSE tk

\* on_message, lines 1049-1055: a message in a tracked channel sets the
\* ticket's last_activity to the clock and saves the collection.
Touch(tk, ch, t) ==
    IF Tracked(tk, ch) THEN [tk EXCEPT !.rec[ch].last_activity = t] ELSE tk

\* The messages on_message sees: the bot's own (it returns at once, lines
\* 1025-1026), a member's question that mentions the bot (ask_ai answers and
\* the handler returns, lines 1029-1037), a member's message that holds a
\* keyword (the handler awaits the send of the response first, line 1044)
\* and any other message of a member.
MsgKinds == {"own", "question", "keyword", "plain"}

\* Whether on_message reaches line 1049 for a message of this kind; ok:
\* the send of the keyword's response has returned (it has not raised).
ReachesTouch(kind, ok) == kind = "plain" \/ (kind = "keyword" /\ ok)

\* A message that is no command, seen in the channel of a tracked ticket (it
\* may have been posted before the channel was deleted).  For a keyword the
\* step is the one in which the handler resumes after the send.
on_message(ch, kind, ok, o) ==
    /\ ch < nextChan
    /\ Tracked(tickets, ch)
    /\ heard' = IF kind = "own" THEN heard ELSE [heard EXCEPT ![ch] = now]
    /\ IF ReachesTouch(kind, ok)
       THEN /\ tickets' = Touch(tickets, ch, now)
            /\ ticketsFile' = save_data(tickets', ticketsFile, o)
       ELSE UNCHANGED <<tickets, ticketsFile>>
    /\ UNCHANGED <<now, diskFaulty, rvars, chanAlive, sw, closeH, openH,
                   nextChan, svars, pvars>>

\* A member with the right deletes a ticket channel by hand.
external_delete(ch) ==
    /\ ch < nextChan
    /\ chanAlive[ch]
    /\ chanAlive' = [chanAlive EXCEPT ![ch] = FALSE]
    /\ UNCHANGED <<now, diskFaulty, rvars, tickets, ticketsFile, sw, closeH,
                   openH, nextChan, svars, heard, pvars>>

-----------------------------------------------------------------------------
(* Commands posted in a channel: set_reminder                              *)

\* A command is a message: on_message sees it first, lines 1049-1055 set
\* last_activity and save where it is posted in a tracked ticket channel,
\* and line 1058 dispatches it.  ch is the channel (0: one that is no
\* ticket's).
command_message(ch, o) ==
    /\ ch < nextChan
    /\ tickets' = Touch(tickets, ch, now)
    /\ ticketsFile' = IF Tracked(tickets, ch)
                      THEN save_data(tickets', ticketsFile, o)
                      ELSE ticketsFile
    /\ heard' = IF Tracked(tickets, ch) THEN [heard EXCEPT ![ch] = now] ELSE heard

\* A variant of RemindAnswer that takes any final character for seconds.
RemindAnswer_AnyUnit(time, hasMessage) ==
    LET n == ParseInt(SubSeq(time, 1, Len(time) - 1))
    IN  IF ~hasMessage THEN "usage"
        ELSE IF ~n.ok THEN "invalid"
        ELSE IF n.val <= 0 THEN "positive"
        ELSE "set"

\* The answer of the remind command: "usage" without a message (line 779),
\* "invalid" where int() raises ValueError or the unit is none of s, m, h, d
\* (lines 798, 829), "positive" (line 802), "set" for the confirmation.
RemindAnswer(time, hasMessage) ==
    LET p == ParseTime(time)
    IN  IF ~hasMessage THEN "usage"
        ELSE IF ~p.ok THEN "invalid"
        ELSE IF p.seconds <= 0 THEN "positive"
        ELSE "set"

\* !remind <time> <message>, posted in channel ch.  The reminder is appended
\* and saved before the handler's first await (the confirmation), which
\* changes no state; a request that is refused is answered and the handler
\* does nothing else.  The clock is read twice: due_time is the clock on
\* line 806 plus the seconds, set_time is the clock on line 814, t2.  ot, o:
\* the outcomes of the two saves.
set_reminder(ch, time, hasMessage, t2, ot, o) ==
    /\ command_message(ch, ot)
    /\ remindH' = [text |-> RemindAnswer(time, hasMessage), ch |-> ch]
    /\ IF remindH'.text # "set"
       THEN UNCHANGED <<now, reminders, remindersFile, nextMsg, dueOf, rDirty>>
       ELSE /\ nextMsg <= MaxReminders
            /\ t2 >= now
            /\ now' = t2
            /\ LET reminder == [message |-> nextMsg,
                                due_time |-> now + ParseTime(time).seconds,
                                set_time |-> t2]
               IN  /\ reminders' = Append(reminders, reminder)
                   /\ remindersFile' = save_data(reminders', remindersFile, o)
                   /\ dueOf' = [dueOf EXCEPT ![nextMsg] = reminder.due_time]
            /\ rDirty' = (o # "ok")
            /\ nextMsg' = nextMsg + 1
    /\ UNCHANGED <<diskFaulty, rs, att, attSweep, sent, chanAlive, sw, closeH,
                   openH, nextChan, svars, pvars>>

-----------------------------------------------------------------------------
(* Tickets: check_ticket_timeouts                                          *)

\* A variant of Eligible that takes a ticket at the threshold.
Eligible_AtThreshold(ticket, current_time) ==
    ticket.status = "open" /\ current_time - ticket.last_activity >= TIMEOUT

\* ticket['status'] == 'open' and current_time - ticket['last_activity'] > 86400
Eligible(ticket, current_time) ==
    ticket.status = "open" /\ current_time - ticket.last_activity > TIMEOUT

SweepAt(pc, cur, gi, ti, gUsed, tUsed) ==
    [pc |-> pc, cur |-> cur, gi |-> gi, ti |-> ti, gUsed |-> gUsed, tUsed |-> tUsed]

\* The task awaits asyncio.sleep(3600); the task has ended with RuntimeError
\* ("dictionary changed size during iteration", raised by a for statement,
\* outside the try).
SweepSleep(cur) == SweepAt("sleep", cur, 0, 0, 0, 0)
SweepDead(cur) == SweepAt("dead", cur, 0, 0, 0, 0)

\* The two for loops from a call of next() to the first await.  A dict
\* iterator remembers the size of its dict (gUsed, tUsed) and the number of
\* items it has yielded (gi, ti); next() raises RuntimeError when the size
\* differs.  An eligible ticket whose channel guild.get_channel does not find
\* is passed over.
RECURSIVE InnerNext(_, _, _, _, _, _, _)
RECURSIVE OuterNext(_, _, _, _, _)
InnerNext(tk, alive, cur, gi, ti, gUsed, tUsed) ==
    LET g == tk.guilds[gi]
    IN  IF Len(tk.chans[g]) # tUsed THEN SweepDead(cur)
        ELSE IF ti >= tUsed THEN OuterNext(tk, alive, cur, gi, gUsed)
        ELSE LET ch == tk.chans[g][ti + 1]
             IN  IF Eligible(tk.rec[ch], cur) /\ alive[ch]
                 THEN SweepAt("history", cur, gi, ti + 1, gUsed, tUsed)
                 ELSE InnerNext(tk, alive, cur, gi, ti + 1, gUsed, tUsed)
OuterNext(tk, alive, cur, gi, gUsed) ==
    IF Len(tk.guilds) # gUsed THEN SweepDead(cur)
    ELSE IF gi >= gUsed THEN SweepSleep(cur)
    ELSE InnerNext(tk, alive, cur, gi + 1, 0, gUsed, Len(tk.chans[tk.guilds[gi + 1]]))

\* The ticket the sweep is closing.
SwChan == tickets.chans[tickets.guilds[sw.gi]][sw.ti]

SwPcs == {"history", "archive", "delete", "notify"}

\* The except clause: the error is logged and the inner loop goes on.
SwContinue == InnerNext(tickets, chanAlive, sw.cur, sw.gi, sw.ti, sw.gUsed, sw.tUsed)

\* One pass of the while loop up to its first await: the clock is read once
\* and the loops start.
check_ticket_timeouts_scan ==
    /\ sw.pc = "sleep"
    /\ now > sw.cur
    /\ sw' = OuterNext(tickets, chanAlive, now, 0, Len(tickets.guilds))
    /\ UNCHANGED <<now, diskFaulty, rvars, tickets, ticketsFile, chanAlive,
                   closeH, openH, nextChan, svars, heard, pvars>>

\* channel.history(...) has been read to its end, or has raised (it raises
\* for a channel that no longer exists).
sweep_history(ok) ==
    /\ sw.pc = "history"
    /\ ok => chanAlive[SwChan]
    /\ sw' = IF ok THEN [sw EXCEPT !.pc = "archive"] ELSE SwContinue
    /\ UNCHANGED <<now, diskFaulty, rvars, tickets, ticketsFile, chanAlive,
                   closeH, openH, nextChan, svars, heard, pvars>>

\* Lines 170-181: 'ticket-transcripts' is found or created and the transcript
\* is sent to it, whole or in chunks; all of it returns, or one call raises.
sweep_archive(ok) ==
    /\ sw.pc = "archive"
    /\ sw' = IF ok THEN [sw EXCEPT !.pc = "delete"] ELSE SwContinue
    /\ UNCHANGED <<now, diskFaulty, rvars, tickets, ticketsFile, chanAlive,
                   closeH, openH, nextChan, svars, heard, pvars>>

\* A variant of SweepClose that looks at the ticket's last_activity again.
SweepClose_Rechecks(tk, ch) ==
    IF Eligible(tk.rec[ch], sw.cur) THEN [tk EXCEPT !.rec[ch].status = "closed"] ELSE tk

\* Lines 185-186, after channel.delete has returned.
SweepClose(tk, ch) == [tk EXCEPT !.rec[ch].status = "closed"]

\* channel.delete returns (the channel existed and is gone) or raises.
sweep_delete(ok, o) ==
    /\ sw.pc = "delete"
    /\ ok => chanAlive[SwChan]
    /\ IF ok
       THEN /\ chanAlive' = [chanAlive EXCEPT ![SwChan] = FALSE]
            /\ tickets' = SweepClose(tickets, SwChan)
            /\ ticketsFile' = save_data(tickets', ticketsFile, o)
            /\ sw' = [sw EXCEPT !.pc = "notify"]
       ELSE /\ sw' = SwContinue
            /\ UNCHANGED <<chanAlive, tickets, ticketsFile>>
    /\ UNCHANGED <<now, diskFaulty, rvars, closeH, openH, nextChan, svars,
                   heard, pvars>>

\* Lines 189-190: bot.fetch_user and user.send return, or one raises; either
\* way the inner loop goes on.
sweep_notify ==
    /\ sw.pc = "notify"
    /\ sw' = SwContinue
    /\ UNCHANGED <<now, diskFaulty, rvars, tickets, ticketsFile, chanAlive,
                   closeH, openH, nextChan, svars, heard, pvars>>

-----------------------------------------------------------------------------
(* Tickets: close_ticket                                                   *)

MaxClosers == 1
CloseSlots == 1..MaxClosers

\* at: where the close sequence raised (the reply quotes the exception).
IdleClose ==
    [pc |-> "idle", ch |-> 0, closer |-> 0, manage |-> FALSE, text |-> "", at |-> ""]

\* The handler awaits ctx.send(text), its last statement.
ReplyClose(h, text) == [h EXCEPT !.pc = "reply", !.text = text]

\* A variant of Forbidden that has lost the "not".
Forbidden_WithManage(ticket, closer, manage) == closer # ticket.user_id /\ manage

\* ctx.author.id != ticket['user_id'] and not
\* ctx.author.guild_permissions.manage_channels
Forbidden(ticket, closer, manage) == closer # ticket.user_id /\ ~manage

\* close_ticket from its first line to its first await, for a command
\* posted by closer in channel ch (0: a channel that is no ticket's).
CloseStart(tk, ch, closer, manage) ==
    LET h == [IdleClose EXCEPT !.ch = ch, !.closer = closer, !.manage = manage]
    IN  IF ~Tracked(tk, ch) THEN ReplyClose(h, "not_ticket")
        ELSE IF Forbidden(tk.rec[ch], closer, manage) THEN ReplyClose(h, "forbidden")
        ELSE [h EXCEPT !.pc = "history"]

\* The message "!closeticket" reaches on_message, which updates the ticket's
\* last_activity and saves (lines 1049-1055) and then dispatches the command
\* (line 1058); close_ticket runs to its first await.
close_request(s, ch, closer, manage, o) ==
    /\ closeH[s].pc = "idle"
    /\ ch < nextChan
    /\ tickets' = Touch(tickets, ch, now)
    /\ ticketsFile' = IF Tracked(tickets, ch)
                      THEN save_data(tickets', ticketsFile, o)
                      ELSE ticketsFile
    /\ closeH' = [closeH EXCEPT ![s] = CloseStart(tickets', ch, closer, manage)]
    /\ heard' = IF Tracked(tickets, ch) THEN [heard EXCEPT ![ch] = now] ELSE heard
    /\ UNCHANGED <<now, diskFaulty, rvars, chanAlive, sw, openH, nextChan,
                   svars, pvars>>

\* ctx.send(text) returns or raises and the handler ends.
close_reply(s) ==
    /\ closeH[s].pc = "reply"
    /\ closeH' = [closeH EXCEPT ![s] = IdleClose]
    /\ UNCHANGED <<now, diskFaulty, rvars, tickets, ticketsFile, chanAlive, sw,
                   openH, nextChan, svars, heard, pvars>>

\* The except clause of close_ticket: the error is logged and reported.
CloseFailed(h) ==
    ReplyClose([h EXCEPT !.closer = 0, !.manage = FALSE, !.at = h.pc], "error")

\* ctx.channel.history(...) has been read to its end, or has raised.
close_history(s, ok) ==
    /\ closeH[s].pc = "history"
    /\ ok => chanAlive[closeH[s].ch]
    /\ closeH' = [closeH EXCEPT ![s] =
                    IF ok THEN [@ EXCEPT !.pc = "archive"] ELSE CloseFailed(@)]
    /\ UNCHANGED <<now, diskFaulty, rvars, tickets, ticketsFile, chanAlive, sw,
                   openH, nextChan, svars, heard, pvars>>

\* Lines 937-948: 'ticket-transcripts' is found or created and the transcript
\* is sent to it, whole or in chunks; all of it returns, or one call raises.
close_archive(s, ok) ==
    /\ closeH[s].pc = "archive"
    /\ closeH' = [closeH EXCEPT ![s] =
                    IF ok THEN [@ EXCEPT !.pc = "delete"] ELSE CloseFailed(@)]
    /\ UNCHANGED <<now, diskFaulty, rvars, tickets, ticketsFile, chanAlive, sw,
                   openH, nextChan, svars, heard, pvars>>

\* A variant of ManualClose that records the closer and leaves the status.
ManualClose_KeepsStatus(tk, ch, closer, t) ==
    [tk EXCEPT !.rec[ch].closed_by = closer,
               !.rec[ch].closed_at = t]

\* Lines 954-956, after ctx.channel.delete has returned.
ManualClose(tk, ch, closer, t) ==
    [tk EXCEPT !.rec[ch].status = "closed",
               !.rec[ch].closed_by = closer,
               !.rec[ch].closed_at = t]

close_delete(s, ok, o) ==
    /\ closeH[s].pc = "delete"
    /\ ok => chanAlive[closeH[s].ch]
    /\ IF ok
       THEN /\ chanAlive' = [chanAlive EXCEPT ![closeH[s].ch] = FALSE]
            /\ tickets' = ManualClose(tickets, closeH[s].ch, closeH[s].closer, now)
            /\ ticketsFile' = save_data(tickets', ticketsFile, o)
            /\ closeH' = [closeH EXCEPT ![s] =
                            [@ EXCEPT !.pc = "notify", !.closer = 0, !.manage = FALSE]]
       ELSE /\ closeH' = [closeH EXCEPT ![s] = CloseFailed(@)]
            /\ UNCHANGED <<chanAlive, tickets, ticketsFile>>
    /\ UNCHANGED <<now, diskFaulty, rvars, sw, openH, nextChan, svars, heard,
                   pvars>>

\* A variant of close_notify that takes the close back when the owner cannot
\* be told.
close_notify_reverts(s, ok) ==
    /\ closeH[s].pc = "notify"
    /\ closeH' = [closeH EXCEPT ![s] = IF ok THEN IdleClose ELSE CloseFailed(@)]
    /\ tickets' = IF ok THEN tickets
                       ELSE [tickets EXCEPT !.rec[closeH[s].ch].status = "open"]
    /\ ticketsFile' = ValidFile(tickets')
    /\ UNCHANGED <<now, diskFaulty, rvars, chanAlive, sw, openH, nextChan,
                   svars, heard, pvars>>

\* Lines 960-961: bot.fetch_user and user.send return, and the handler ends,
\* or one of them raises.
close_notify(s, ok) ==
    /\ closeH[s].pc = "notify"
    /\ closeH' = [closeH EXCEPT ![s] = IF ok THEN IdleClose ELSE CloseFailed(@)]
    /\ UNCHANGED <<now, diskFaulty, rvars, tickets, ticketsFile, chanAlive, sw,
                   openH, nextChan, svars, heard, pvars>>

-----------------------------------------------------------------------------
(* Tickets: create_ticket                                                  *)

MaxOpeners == 2
OpenSlots == 1..MaxOpeners

IdleOpen == [pc |-> "idle", guild |-> 0, author |-> 0, num |-> 0, ch |-> 0]

\* len(tickets.get(str(guild.id), {})) + 1
TicketNumber(tk, g) == Len(tk.chans[g]) + 1

\* Lines 890-899: the guild's dict is created when missing and the record is
\* stored under the new channel's id.
InsertTicket(tk, g, ch, author, t) ==
    [guilds |-> IF HasGuild(tk, g) THEN tk.guilds ELSE Append(tk.guilds, g),
     chans |-> [tk.chans EXCEPT ![g] = Append(@, ch)],
     rec |-> [tk.rec EXCEPT ![ch] =
                [user_id |-> author, status |-> "open", last_activity |-> t,
                 closed_by |-> None, closed_at |-> None]]]

\* !ticket <reason>, posted in a channel that is no ticket's.  Without a
\* reason the handler answers and ends.  The "Tickets" category is found, or
\* the handler awaits its creation.
open_request(s, g, author, hasReason, hasCategory) ==
    /\ openH[s].pc = "idle"
    /\ IF ~hasReason THEN openH' = openH
       ELSE IF hasCategory
       THEN openH' = [openH EXCEPT ![s] =
                        [pc |-> "channel", guild |-> g, author |-> author,
                         num |-> TicketNumber(tickets, g), ch |-> 0]]
       ELSE openH' = [openH EXCEPT ![s] =
                        [pc |-> "category", guild |-> g, author |-> author,
                         num |-> 0, ch |-> 0]]
    /\ UNCHANGED <<now, diskFaulty, rvars, tickets, ticketsFile, chanAlive, sw,
                   closeH, nextChan, svars, heard, pvars>>

\* guild.create_category and set_permissions return, or one of them raises
\* and the handler answers and ends.
open_category(s, ok) ==
    /\ openH[s].pc = "category"
    /\ openH' = [openH EXCEPT ![s] =
                    IF ok THEN [@ EXCEPT !.pc = "channel",
                                         !.num = TicketNumber(tickets, openH[s].guild)]
                          ELSE IdleOpen]
    /\ UNCHANGED <<now, diskFaulty, rvars, tickets, ticketsFile, chanAlive, sw,
                   closeH, nextChan, svars, heard, pvars>>

\* ticket_category.create_text_channel(ticket_name) returns the new channel,
\* which has the name made of the number, or raises.
open_channel(s, ok) ==
    /\ openH[s].pc = "channel"
    /\ IF ok
       THEN /\ nextChan <= MaxTickets
            /\ openH' = [openH EXCEPT ![s] = [@ EXCEPT !.pc = "setup", !.ch = nextChan]]
            /\ chanAlive' = [chanAlive EXCEPT ![nextChan] = TRUE]
            /\ named' = [named EXCEPT ![nextChan] =
                            [guild |-> openH[s].guild, num |-> openH[s].num]]
            /\ nextChan' = nextChan + 1
       ELSE /\ openH' = [openH EXCEPT ![s] = IdleOpen]
            /\ UNCHANGED <<chanAlive, nextChan, named>>
    /\ UNCHANGED <<now, diskFaulty, rvars, tickets, ticketsFile, sw, closeH,
                   st, archive, gw, heard, pvars>>

\* A variant of open_setup that stores the record before the two calls.
open_setup_records_first(s, ok, o) ==
    /\ openH[s].pc = "setup"
    /\ ok => chanAlive[openH[s].ch]
    /\ tickets' = InsertTicket(tickets, openH[s].guild, openH[s].ch, openH[s].author, now)
    /\ ticketsFile' = save_data(tickets', ticketsFile, o)
    /\ heard' = [heard EXCEPT ![openH[s].ch] = now]
    /\ openH' = [openH EXCEPT ![s] = IF ok THEN [@ EXCEPT !.pc = "notify"] ELSE IdleOpen]
    /\ UNCHANGED <<now, diskFaulty, rvars, chanAlive, sw, closeH, nextChan,
                   svars, pvars>>

\* set_permissions and the send of the embed return, and the record is
\* stored and saved; or one of them raises (as they do for a channel that no
\* longer exists) and the handler answers and ends.
open_setup(s, ok, o) ==
    /\ openH[s].pc = "setup"
    /\ ok => chanAlive[openH[s].ch]
    /\ IF ok
       THEN /\ tickets' = InsertTicket(tickets, openH[s].guild, openH[s].ch, openH[s].author, now)
            /\ ticketsFile' = save_data(tickets', ticketsFile, o)
            /\ openH' = [openH EXCEPT ![s] = [@ EXCEPT !.pc = "notify"]]
            /\ heard' = [heard EXCEPT ![openH[s].ch] = now]
       ELSE /\ openH' = [openH EXCEPT ![s] = IdleOpen]
            /\ UNCHANGED <<tickets, ticketsFile, heard>>
    /\ UNCHANGED <<now, diskFaulty, rvars, chanAlive, sw, closeH, nextChan,
                   svars, pvars>>

\* The two notifications return or raise; the handler ends.
open_notify(s) ==
    /\ openH[s].pc = "notify"
    /\ openH' = [openH EXCEPT ![s] = IdleOpen]
    /\ UNCHANGED <<now, diskFaulty, rvars, tickets, ticketsFile, chanAlive, sw,
                   closeH, nextChan, svars, heard, pvars>>

-----------------------------------------------------------------------------
(* Polls: the tally                                                        *)

MaxOptions == 3
MaxCount == 4

Reverse(s) == [k \in 1..Len(s) |-> s[Len(s) + 1 - k]]

\* x put into a list that ascends by count, behind every pair whose count is
\* not greater.
RECURSIVE InsertAsc(_, _)
InsertAsc(s, x) ==
    IF s = <<>> THEN <<x>>
    ELSE IF x[2] < Head(s)[2] THEN <<x>> \o s
    ELSE <<Head(s)>> \o InsertAsc(Tail(s), x)

\* A stable ascending sort by count.
RECURSIVE SortAsc(_)
SortAsc(s) ==
    IF s = <<>> THEN <<>>
    ELSE InsertAsc(SortAsc(SubSeq(s, 1, Len(s) - 1)), s[Len(s)])

\* A variant of SortResults that sorts ascending and reverses the outcome.
SortResults_Reversed(results) == Reverse(SortAsc(results))

\* Line 751, results.sort(key=lambda x: x[1], reverse=True): list.sort is
\* stable, and with reverse=True it reverses the list, sorts it ascending and
\* reverses it again, so that pairs of equal count keep their order.
SortResults(results) == Reverse(SortAsc(Reverse(results)))

\* Lines 744-751 for a poll of n options whose markers have the given
\* reaction counts (0: the message has no such reaction and
\* discord.utils.get returns None, whose .count raises): the pairs
\* (option, count - 1), options numbered in creation order, sorted.
Tally(n, counts) ==
    IF \E i \in 1..n : counts[i] = 0 THEN Raised
    ELSE SortResults([i \in 1..n |-> <<i, counts[i] - 1>>])

IdleTally == [n |-> 0, counts |-> <<>>, results |-> <<>>, done |-> FALSE]

\* The polls the tally is applied to, on its own.
TallyInputs ==
    UNION { {[IdleTally EXCEPT !.n = n, !.counts = c] : c \in [1..n -> 0..MaxCount]}
            : n \in 2..MaxOptions }

tally_apply ==
    /\ ~tally.done
    /\ tally.n > 0
    /\ tally' = [tally EXCEPT !.results = Tally(tally.n, tally.counts), !.done = TRUE]
    /\ UNCHANGED <<now, diskFaulty, rvars, tvars, svars, polls, pollsFile, reactions,
                   nextPoll, pollH, endH, ended>>

-----------------------------------------------------------------------------
(* Polls: advanced_poll and end_poll                                       *)

MaxPolls == 1
MaxEnders == 2
MaxVotes == 1
PollIds == 1..MaxPolls
EndSlots == 1..MaxEnders

\* The option counts the advpoll command is given.
OptionCounts == {0, 1, 2, MaxOptions, 10, 11}

IdlePoll == [pc |-> "idle", n |-> 0, id |-> 0, text |-> "", ch |-> 0]

\* polls: {str(message id): record}; a record has its options and its
\* markers (by their number), its message_id and fields that are never read.
PollRecord(n, id) == [options |-> n, emoji_options |-> n, message_id |-> id]

\* !advpoll <title> <options...>, posted in channel ch, lines 679-701: with
\* fewer than 2 or more than 10 options the handler answers and ends; else
\* it sends the poll.
poll_request(ch, n, o) ==
    /\ pollH.pc = "idle"
    /\ command_message(ch, o)
    /\ pollH' = IF n < 2 THEN [IdlePoll EXCEPT !.pc = "reply", !.text = "few", !.ch = ch]
                ELSE IF n > 10
                THEN [IdlePoll EXCEPT !.pc = "reply", !.text = "many", !.ch = ch]
                ELSE [IdlePoll EXCEPT !.pc = "send", !.n = n]
    /\ UNCHANGED <<now, diskFaulty, rvars, chanAlive, sw, closeH, openH, nextChan,
                   svars, polls, pollsFile, reactions, nextPoll, endH, ended, tally>>

\* ctx.send(text) returns or raises and the handler ends.
poll_reply ==
    /\ pollH.pc = "reply"
    /\ pollH' = IdlePoll
    /\ UNCHANGED <<now, diskFaulty, rvars, tvars, svars, polls, pollsFile, reactions,
                   nextPoll, endH, ended, tally>>

\* Line 704, ctx.send(embed=embed): the poll message exists, with no
\* reaction yet; or the send raises and the handler ends.
poll_send(ok) ==
    /\ pollH.pc = "send"
    /\ IF ok
       THEN /\ nextPoll <= MaxPolls
            /\ pollH' = [pollH EXCEPT !.pc = "react", !.id = nextPoll]
            /\ reactions' = [reactions EXCEPT ![nextPoll] = [i \in 1..pollH.n |-> 0]]
            /\ nextPoll' = nextPoll + 1
       ELSE /\ pollH' = IdlePoll
            /\ UNCHANGED <<reactions, nextPoll>>
    /\ UNCHANGED <<now, diskFaulty, rvars, tvars, svars, polls, pollsFile, endH,
                   ended, tally>>

\* Lines 707-721: the bot has added its reaction to every marker, and the
\* record is stored and saved; or an add_reaction raises and the handler
\* ends with no record of the message.
poll_react(ok, o) ==
    /\ pollH.pc = "react"
    /\ IF ok
       THEN /\ reactions' = [reactions EXCEPT ![pollH.id] =
                                [i \in DOMAIN @ |-> @[i] + 1]]
            /\ polls' = [q \in DOMAIN polls \cup {pollH.id} |->
                            IF q = pollH.id THEN PollRecord(pollH.n, pollH.id)
                            ELSE polls[q]]
            /\ pollsFile' = save_data(polls', pollsFile, o)
       ELSE UNCHANGED <<reactions, polls, pollsFile>>
    /\ pollH' = IdlePoll
    /\ UNCHANGED <<now, diskFaulty, rvars, tvars, svars, nextPoll, endH, ended, tally>>

\* A member reacts to poll message p with marker i.
vote(p, i) ==
    /\ i \in DOMAIN reactions[p]
    /\ reactions[p][i] <= MaxVotes
    /\ pollH.pc = "react" => pollH.id # p
    /\ reactions' = [reactions EXCEPT ![p][i] = @ + 1]
    /\ UNCHANGED <<now, diskFaulty, rvars, tvars, svars, polls, pollsFile, nextPoll,
                   pollH, endH, ended, tally>>

IdleEnd == [pc |-> "idle", id |-> None, poll |-> PollRecord(0, 0), results |-> <<>>,
            text |-> ""]

\* The handler's last answer is on its way.
ReplyEnd(h, text) == [IdleEnd EXCEPT !.pc = "reply", !.id = h.id, !.text = text]

\* !endpoll [message_id], posted in a channel that is no ticket's, lines
\* 727-740: without an id, or with one that is
\* no key of polls, the handler answers and ends; else it reads the record
\* and fetches the poll message.
end_request(s, message_id) ==
    /\ endH[s].pc = "idle"
    /\ endH' = [endH EXCEPT ![s] =
                  IF message_id = None THEN ReplyEnd(IdleEnd, "usage")
                  ELSE IF message_id \notin DOMAIN polls
                  THEN ReplyEnd([IdleEnd EXCEPT !.id = message_id], "not_found")
                  ELSE [IdleEnd EXCEPT !.pc = "fetch", !.id = message_id,
                                       !.poll = polls[message_id]]]
    /\ UNCHANGED <<now, diskFaulty, rvars, tvars, svars, polls, pollsFile, reactions,
                   nextPoll, pollH, ended, tally>>

\* ctx.send(text) returns or raises and the handler ends.
end_reply(s) ==
    /\ endH[s].pc = "reply"
    /\ endH' = [endH EXCEPT ![s] = IdleEnd]
    /\ UNCHANGED <<now, diskFaulty, rvars, tvars, svars, polls, pollsFile, reactions,
                   nextPoll, pollH, ended, tally>>

\* Lines 741-763: fetch_message returns the poll message and its reactions
\* are tallied; fetch_message or the tally raises and the except clause
\* answers with the error.
end_fetch(s, ok) ==
    /\ endH[s].pc = "fetch"
    /\ LET h == endH[s]
           results == Tally(h.poll.emoji_options, reactions[h.poll.message_id])
       IN  endH' = [endH EXCEPT ![s] =
                      IF ok /\ results # Raised
                      THEN [h EXCEPT !.pc = "send", !.results = results]
                      ELSE ReplyEnd(h, "error")]
    /\ UNCHANGED <<now, diskFaulty, rvars, tvars, svars, polls, pollsFile, reactions,
                   nextPoll, pollH, ended, tally>>

\* Lines 765-772: ctx.send(embed=embed) has shown the results and the record
\* is deleted and the dict saved; where the record is no longer in polls,
\* del raises KeyError, and where the send raises nothing is deleted: the
\* except clause answers with the error.
end_send(s, ok, o) ==
    /\ endH[s].pc = "send"
    /\ LET h == endH[s]
       IN  IF ~ok
           THEN /\ endH' = [endH EXCEPT ![s] = ReplyEnd(h, "error")]
                /\ UNCHANGED <<polls, pollsFile, ended>>
           ELSE IF h.id \notin DOMAIN polls
           THEN /\ endH' = [endH EXCEPT ![s] = ReplyEnd(h, "error")]
                /\ ended' = [ended EXCEPT ![h.id].reported = @ + 1]
                /\ UNCHANGED <<polls, pollsFile>>
           ELSE /\ endH' = [endH EXCEPT ![s] = IdleEnd]
                /\ polls' = [q \in DOMAIN polls \ {h.id} |-> polls[q]]
                /\ pollsFile' = save_data(polls', pollsFile, o)
                /\ ended' = [ended EXCEPT ![h.id].reported = @ + 1,
                                          ![h.id].removed = @ + 1]
    /\ UNCHANGED <<now, diskFaulty, rvars, tvars, svars, reactions, nextPoll, pollH,
                   tally>>

-----------------------------------------------------------------------------
(* The store as a process: a handler changes a collection and saves it, the  *)
(* process may be killed at any point and is started again                   *)

MaxItems == 2
Items == 1..MaxItems
Kinds == {"polls", "reminders", "tickets"}

\* Lines 103-105: the default each collection is loaded with.
DefaultOf(kind) == IF kind = "reminders" THEN EmptyList ELSE EmptyDict

\* A variant of EntryOf that keys a poll by the message id itself.
EntryOf_IntKey(kind, x) ==
    CASE kind = "polls" -> [id |-> x, path |-> <<IntKey(x)>>, seqs |-> "list"]
      [] kind = "reminders" -> [id |-> x, path |-> <<>>, seqs |-> "none"]
      [] kind = "tickets" -> [id |-> x, path |-> <<StrKey(1), StrKey(x)>>, seqs |-> "none"]

\* The entry a handler stores for item x: polls[str(poll_message.id)] with
\* its options as list(options) (lines 711-719), reminders.append(...) (line
\* 817), tickets[str(guild.id)][str(ticket_channel.id)] (lines 890-893).
EntryOf(kind, x) ==
    CASE kind = "polls" -> [id |-> x, path |-> <<StrKey(x)>>, seqs |-> "list"]
      [] kind = "reminders" -> [id |-> x, path |-> <<>>, seqs |-> "none"]
      [] kind = "tickets" -> [id |-> x, path |-> <<StrKey(1), StrKey(x)>>, seqs |-> "none"]

\* st.mem is the collection in memory and st.file its file; st.pc is "idle"
\* (no save in progress), "open" (save_data is about to open the file), "dump"
\* (the file is open and json.dump is writing) or "down" (the process is not
\* running).  History: st.prev is the last collection written completely,
\* st.crashedAt the pc at which the process was last killed, st.fresh whether
\* st.mem is as the start has loaded it and st.from what the file was then.
StoreInit(kind) ==
    [kind |-> kind, mem |-> DefaultOf(kind), file |-> MissingFile, pc |-> "idle",
     prev |-> DefaultOf(kind), crashedAt |-> "none", fresh |-> FALSE, from |-> "none"]

\* A handler adds item x to the collection, or removes it, and calls
\* save_data.
store_update(x) ==
    /\ st.pc = "idle"
    /\ LET e == EntryOf(st.kind, x)
       IN  st' = [st EXCEPT !.mem.items = IF InList(@, e) THEN Remove(@, e) ELSE Append(@, e),
                            !.pc = "open", !.crashedAt = "none", !.fresh = FALSE,
                            !.from = "none"]
    /\ UNCHANGED <<now, diskFaulty, rvars, tvars, archive, named, gw, pvars>>

\* Line 97, open(file_path, 'w'): the file is truncated, or open raises and
\* save_data logs and returns.
store_open(ok) ==
    /\ st.pc = "open"
    /\ ok => st.file.st # "unreadable"
    /\ st' = IF ok THEN [st EXCEPT !.file = open_w(@), !.pc = "dump"]
                   ELSE [st EXCEPT !.pc = "idle"]
    /\ UNCHANGED <<now, diskFaulty, rvars, tvars, archive, named, gw, pvars>>

\* Line 98, json.dump: the document is written to its end, or json.dump
\* raises part way and save_data logs and returns.
store_dump(ok) ==
    /\ st.pc = "dump"
    /\ st' = IF ok THEN [st EXCEPT !.file = ValidFile(json_dumps(st.mem)),
                                   !.prev = st.mem, !.pc = "idle"]
                   ELSE [st EXCEPT !.pc = "idle"]
    /\ UNCHANGED <<now, diskFaulty, rvars, tvars, archive, named, gw, pvars>>

\* The process is killed; what it held in memory is gone.
store_crash ==
    /\ st.pc # "down"
    /\ st' = [st EXCEPT !.mem = DefaultOf(st.kind), !.pc = "down", !.crashedAt = st.pc,
                        !.fresh = FALSE, !.from = "none"]
    /\ UNCHANGED <<now, diskFaulty, rvars, tvars, archive, named, gw, pvars>>

\* The process starts: lines 103-105 load the collection.  Were load_data to
\* raise, the import would fail and the process would not run.
store_start ==
    /\ st.pc = "down"
    /\ LET v == load_data(st.file, DefaultOf(st.kind))
       IN  st' = [st EXCEPT !.mem = v, !.pc = IF v = Raised THEN "down" ELSE "idle",
                            !.fresh = TRUE, !.from = st.file.st]
    /\ UNCHANGED <<now, diskFaulty, rvars, tvars, archive, named, gw, pvars>>

\* While the process is down its file is deleted, overwritten with
\* something that is no JSON document, or made unreadable.
store_spoil(file) ==
    /\ st.pc = "down"
    /\ st.file # file
    /\ st' = [st EXCEPT !.file = file]
    /\ UNCHANGED <<now, diskFaulty, rvars, tvars, archive, named, gw, pvars>>

-----------------------------------------------------------------------------
(* Specifications                                                          *)

\* The state after the module has been imported with no file on the disk, in
\* a run whose disk is of one of the given kinds and, for the store on its
\* own, with a collection of one of the given kinds.
InitWith(disks, kinds, tallies, archives) ==
    /\ now = 0
    /\ diskFaulty \in disks
    /\ reminders = <<>>
    /\ remindersFile = MissingFile
    /\ rs = RsStart(0)
    /\ nextMsg = 1
    /\ att = [m \in 1..MaxReminders |-> 0]
    /\ attSweep = [m \in 1..MaxReminders |-> 0]
    /\ sent = [m \in 1..MaxReminders |-> 0]
    /\ dueOf = [m \in 1..MaxReminders |-> None]
    /\ rDirty = FALSE
    /\ tickets = EmptyTickets
    /\ ticketsFile = MissingFile
    /\ chanAlive = [c \in Chans |-> FALSE]
    /\ sw = SweepSleep(None)
    /\ closeH = [s \in CloseSlots |-> IdleClose]
    /\ openH = [s \in OpenSlots |-> IdleOpen]
    /\ nextChan = 1
    /\ heard = [c \in Chans |-> None]
    /\ st \in {StoreInit(kind) : kind \in kinds}
    /\ archive \in archives
    /\ named = [c \in Chans |-> [guild |-> 0, num |-> 0]]
    /\ gw = [fired |-> 0, handlers |-> 0,
             tasks |-> [kind \in {"reminders", "tickets"} |-> <<>>]]
    /\ remindH = [text |-> "", ch |-> 0]
    /\ polls = <<>>
    /\ pollsFile = MissingFile
    /\ reactions = [p \in PollIds |-> <<>>]
    /\ nextPoll = 1
    /\ pollH = IdlePoll
    /\ endH = [s \in EndSlots |-> IdleEnd]
    /\ ended = [p \in PollIds |-> [reported |-> 0, removed |-> 0]]
    /\ tally \in tallies

\* The disk may fail, or does not.
Init == InitWith(BOOLEAN, {"reminders"}, {IdleTally}, {ArchiveStart(0, 0)})
InitHealthy == InitWith({FALSE}, {"tickets"}, {IdleTally}, {ArchiveStart(0, 0)})
InitStore == InitWith({FALSE}, Kinds, {IdleTally}, {ArchiveStart(0, 0)})
InitStoreFaulty == InitWith({TRUE}, Kinds, {IdleTally}, {ArchiveStart(0, 0)})
InitPolls == InitWith({FALSE}, {"polls"}, {IdleTally}, {ArchiveStart(0, 0)})
InitTally == InitWith({FALSE}, {"polls"}, TallyInputs, {ArchiveStart(0, 0)})
\* Transcripts around the multiples of 2000 characters, of tickets whose
\* channel ids have one digit or a snowflake's 17 to 19.
InitArchive ==
    InitWith({FALSE}, {"tickets"}, {IdleTally},
             {ArchiveStart(len, id) :
                 len \in {0, 1, 1000, 1972, 1973, 1999, 2000, 2001, 3999, 4000, 4001, 6000},
                 id \in {1, 17, 18, 19}})

\* The remind command and the reminder scheduler.
NextReminders ==
    \/ TickR
    \/ \E time \in TimeArgs, hasMessage \in BOOLEAN, o \in SaveOutcomes :
          set_reminder(0, time, hasMessage, now, o, o)
    \/ check_reminders_scan
    \/ \E ok \in BOOLEAN, o \in SaveOutcomes : check_reminders_fetch(ok, o)
    \/ \E ok \in BOOLEAN, o \in SaveOutcomes : check_reminders_send(ok, o)

\* The same with the process killed and started again.
NextRemindersCrash ==
    \/ TickR
    \/ \E time \in TimeArgs, hasMessage \in BOOLEAN, o \in SaveOutcomes :
          set_reminder(0, time, hasMessage, now, o, o)
    \/ check_reminders_scan
    \/ \E ok \in BOOLEAN, o \in SaveOutcomes : check_reminders_fetch(ok, o)
    \/ \E ok \in BOOLEAN, o \in SaveOutcomes : check_reminders_send(ok, o)
    \/ \E delivered \in BOOLEAN : reminders_crash(delivered)

\* The remind command where the clock may advance between its two reads.
NextRemindClock ==
    \/ TickR
    \/ \E time \in ClockArgs, hasMessage \in BOOLEAN, t2 \in RClock, o \in SaveOutcomes :
          set_reminder(0, time, hasMessage, t2, o, o)

\* The ticket command, messages in ticket channels and the inactivity sweep.
NextSweep ==
    \/ TickT
    \/ \E ch \in Chans, o \in SaveOutcomes : on_message(ch, "plain", TRUE, o)
    \/ \E ch \in Chans : external_delete(ch)
    \/ check_ticket_timeouts_scan
    \/ \E ok \in BOOLEAN : sweep_history(ok)
    \/ \E ok \in BOOLEAN : sweep_archive(ok)
    \/ \E ok \in BOOLEAN, o \in SaveOutcomes : sweep_delete(ok, o)
    \/ sweep_notify
    \/ \E g \in Guilds, author \in Authors, hasReason, hasCategory \in BOOLEAN :
          open_request(1, g, author, hasReason, hasCategory)
    \/ \E ok \in BOOLEAN : open_category(1, ok)
    \/ \E ok \in BOOLEAN : open_channel(1, ok)
    \/ \E ok \in BOOLEAN, o \in SaveOutcomes : open_setup(1, ok, o)
    \/ open_notify(1)

\* The ticket and closeticket commands, messages in ticket channels and the
\* inactivity sweep.
NextClose ==
    \/ TickC
    \/ \E ch \in Chans, o \in SaveOutcomes : on_message(ch, "plain", TRUE, o)
    \/ check_ticket_timeouts_scan
    \/ \E ok \in BOOLEAN : sweep_history(ok)
    \/ \E ok \in BOOLEAN : sweep_archive(ok)
    \/ \E ok \in BOOLEAN, o \in SaveOutcomes : sweep_delete(ok, o)
    \/ sweep_notify
    \/ \E s \in CloseSlots, ch \in 0..MaxTickets, closer \in Users, manage \in BOOLEAN,
          o \in SaveOutcomes : close_request(s, ch, closer, manage, o)
    \/ \E s \in CloseSlots : close_reply(s)
    \/ \E s \in CloseSlots, ok \in BOOLEAN : close_history(s, ok)
    \/ \E s \in CloseSlots, ok \in BOOLEAN : close_archive(s, ok)
    \/ \E s \in CloseSlots, ok \in BOOLEAN, o \in SaveOutcomes : close_delete(s, ok, o)
    \/ \E s \in CloseSlots, ok \in BOOLEAN : close_notify(s, ok)
    \/ \E g \in Guilds, author \in Authors, hasReason, hasCategory \in BOOLEAN :
          open_request(1, g, author, hasReason, hasCategory)
    \/ \E ok \in BOOLEAN : open_category(1, ok)
    \/ \E ok \in BOOLEAN : open_channel(1, ok)
    \/ \E ok \in BOOLEAN, o \in SaveOutcomes : open_setup(1, ok, o)
    \/ open_notify(1)

\* The ticket command and the messages of every kind in ticket channels.
NextMessages ==
    \/ TickT
    \/ \E ch \in Chans, kind \in MsgKinds, ok \in BOOLEAN, o \in SaveOutcomes :
          on_message(ch, kind, ok, o)
    \/ \E g \in Guilds, author \in Authors, hasReason, hasCategory \in BOOLEAN :
          open_request(1, g, author, hasReason, hasCategory)
    \/ \E ok \in BOOLEAN : open_category(1, ok)
    \/ \E ok \in BOOLEAN : open_channel(1, ok)
    \/ \E ok \in BOOLEAN, o \in SaveOutcomes : open_setup(1, ok, o)
    \/ open_notify(1)

\* One collection, its saves, and the process killed and started again.
NextStore ==
    \/ \E x \in Items : store_update(x)
    \/ \E ok \in DiskOks : store_open(ok)
    \/ \E ok \in DiskOks : store_dump(ok)
    \/ store_crash
    \/ store_start

SpecReminders == Init /\ [][NextReminders]_vars
SpecRemindersHealthy == InitHealthy /\ [][NextReminders]_vars
SpecRemindersCrash == InitHealthy /\ [][NextRemindersCrash]_vars
SpecRemindClock == Init /\ [][NextRemindClock]_vars
SpecSweep == InitHealthy /\ [][NextSweep]_vars
SpecClose == InitHealthy /\ [][NextClose]_vars
\* The same with a disk that fails and files that are spoiled.
NextStoreFaulty ==
    \/ \E x \in Items : store_update(x)
    \/ \E ok \in DiskOks : store_open(ok)
    \/ \E ok \in DiskOks : store_dump(ok)
    \/ store_crash
    \/ store_start
    \/ \E file \in {MissingFile, PartialFile, UnreadableFile} : store_spoil(file)

\* The advpoll and endpoll commands and the members' votes.
NextPolls ==
    \/ \E n \in {2, MaxOptions}, o \in SaveOutcomes : poll_request(0, n, o)
    \/ \E ok \in BOOLEAN : poll_send(ok)
    \/ \E ok \in BOOLEAN, o \in SaveOutcomes : poll_react(ok, o)
    \/ \E p \in PollIds, i \in 1..MaxOptions : vote(p, i)
    \/ \E s \in EndSlots, message_id \in {None} \cup PollIds : end_request(s, message_id)
    \/ \E s \in EndSlots : end_reply(s)
    \/ \E s \in EndSlots, ok \in BOOLEAN : end_fetch(s, ok)
    \/ \E s \in EndSlots, ok \in BOOLEAN, o \in SaveOutcomes : end_send(s, ok, o)

\* The commands that validate their arguments: remind and advpoll, posted
\* in ticket channels and elsewhere, and closeticket, posted in a channel
\* that is no ticket's.
NextValidation ==
    \/ TickV
    \/ \E ch \in 0..MaxTickets, time \in RemindArgs, hasMessage \in BOOLEAN,
          o \in SaveOutcomes : set_reminder(ch, time, hasMessage, now, o, o)
    \/ \E ch \in 0..MaxTickets, n \in {1, 2, 11}, o \in SaveOutcomes :
          poll_request(ch, n, o)
    \/ poll_reply
    \/ \E ok \in BOOLEAN : poll_send(ok)
    \/ \E ok \in BOOLEAN, o \in SaveOutcomes : poll_react(ok, o)
    \/ \E s \in CloseSlots, closer \in Authors, o \in SaveOutcomes :
          close_request(s, 0, closer, FALSE, o)
    \/ \E s \in CloseSlots : close_reply(s)
    \/ open_request(1, 1, 1, TRUE, TRUE)
    \/ \E ok \in BOOLEAN : open_channel(1, ok)
    \/ \E ok \in BOOLEAN, o \in SaveOutcomes : open_setup(1, ok, o)
    \/ open_notify(1)

\* Every handler that changes a collection, on a disk that does not fail:
\* one reminder set and delivered, one ticket opened, touched and swept,
\* one poll created and ended.
NextPersist ==
    \/ TickT
    \/ /\ nextMsg = 1
       /\ \E o \in SaveOutcomes : set_reminder(0, <<"3", "0", "s">>, TRUE, now, o, o)
    \/ check_reminders_scan
    \/ \E ok \in BOOLEAN, o \in SaveOutcomes : check_reminders_fetch(ok, o)
    \/ \E ok \in BOOLEAN, o \in SaveOutcomes : check_reminders_send(ok, o)
    \/ \E o \in SaveOutcomes : on_message(1, "plain", TRUE, o)
    \/ check_ticket_timeouts_scan
    \/ \E ok \in BOOLEAN : sweep_history(ok)
    \/ \E ok \in BOOLEAN : sweep_archive(ok)
    \/ \E ok \in BOOLEAN, o \in SaveOutcomes : sweep_delete(ok, o)
    \/ sweep_notify
    \/ nextChan = 1 /\ open_request(1, 1, 1, TRUE, TRUE)
    \/ \E ok \in BOOLEAN : open_channel(1, ok)
    \/ \E ok \in BOOLEAN, o \in SaveOutcomes : open_setup(1, ok, o)
    \/ open_notify(1)
    \/ \E o \in SaveOutcomes : poll_request(0, 2, o)
    \/ \E ok \in BOOLEAN : poll_send(ok)
    \/ \E ok \in BOOLEAN, o \in SaveOutcomes : poll_react(ok, o)
    \/ \E p \in PollIds : end_request(1, p)
    \/ end_reply(1)
    \/ \E ok \in BOOLEAN : end_fetch(1, ok)
    \/ \E ok \in BOOLEAN, o \in SaveOutcomes : end_send(1, ok, o)

\* The tally applied to one poll.
NextTally == tally_apply

SpecMessages == InitHealthy /\ [][NextMessages]_vars
SpecStore == InitStore /\ [][NextStore]_vars
SpecStoreFaulty == InitStoreFaulty /\ [][NextStoreFaulty]_vars
\* The sweep scheduled fairly: time passes, asyncio.sleep returns, and every
\* collaborator call of the sweep returns or raises in the end.
SweepFairness ==
    /\ WF_vars(TickT)
    /\ WF_vars(check_ticket_timeouts_scan)
    /\ WF_vars(\E ok \in BOOLEAN : sweep_history(ok))
    /\ WF_vars(\E ok \in BOOLEAN : sweep_archive(ok))
    /\ WF_vars(\E ok \in BOOLEAN, o \in SaveOutcomes : sweep_delete(ok, o))
    /\ WF_vars(sweep_notify)
SpecSweepFair == InitHealthy /\ [][NextSweep]_vars /\ SweepFairness
SpecValidation == InitHealthy /\ [][NextValidation]_vars
SpecPersist == InitHealthy /\ [][NextPersist]_vars
SpecArchive == InitArchive /\ [][\E ok \in BOOLEAN : archive_send(ok)]_vars
\* The ticket command given again while an earlier invocation is suspended.
SpecOpen ==
    InitHealthy /\ [][ \E s \in OpenSlots :
                         \/ \E g \in Guilds, hasReason, hasCategory \in BOOLEAN :
                               open_request(s, g, 1, hasReason, hasCategory)
                         \/ \E ok \in BOOLEAN : open_category(s, ok)
                         \/ \E ok \in BOOLEAN : open_channel(s, ok)
                         \/ \E ok \in BOOLEAN, o \in SaveOutcomes : open_setup(s, ok, o)
                         \/ open_notify(s)
                   ]_vars
\* The ready events of one process lifetime.
SpecReady ==
    InitHealthy /\ [][ \/ ready_event
                       \/ \E ok \in BOOLEAN : on_ready(ok)
                       \/ \E kind \in DOMAIN gw.tasks, k \in 1..MaxReady : task_ready(kind, k)
                    ]_vars
SpecPolls == InitPolls /\ [][NextPolls]_vars
SpecTally == InitTally /\ [][NextTally]_vars

-----------------------------------------------------------------------------
(* Properties of the reminder scheduler                                    *)

Created == {m \in 1..MaxReminders : dueOf[m] # None}

\* The reminders the sweep that ran last selected, by message.
Selected == Msgs(rs.due)

\* C1: after one complete sweep of check_reminders every reminder the sweep
\* found due has had exactly one delivery attempt in that sweep and is in
\* neither the in-memory list nor the persisted file, also when the attempt
\* failed.
C1_SweepRemovesEveryDue ==
    rs.pc = "sleep" =>
        \A m \in Selected :
            /\ attSweep[m] = 1
            /\ m \notin Msgs(reminders)
            /\ m \notin FileMsgs(remindersFile)

\* C2 (as stated): no reminder's notification is sent successfully more than
\* once, and a reminder whose notification has been sent is in neither the
\* in-memory list nor the persisted file at any point where the scheduler
\* yields.
C2_SentOnceGoneEverywhere ==
    \A m \in 1..MaxReminders :
        /\ sent[m] <= 1
        /\ sent[m] >= 1 => m \notin Msgs(reminders) /\ m \notin FileMsgs(remindersFile)

\* C2 (amended): no reminder's notification is sent successfully more than
\* once, and a reminder whose notification has been sent is not in the
\* in-memory list at any point where the scheduler yields; it is in the
\* persisted file only while the last save of the list has failed.
C2_SentOnceGoneFromMemory ==
    \A m \in 1..MaxReminders :
        /\ sent[m] <= 1
        /\ sent[m] >= 1 => /\ m \notin Msgs(reminders)
                           /\ m \in FileMsgs(remindersFile) => rDirty

\* A notification has been sent and the removal saved while another reminder,
\* set in the meantime, is still pending.
C2_Witness ==
    /\ sent[1] = 1
    /\ ~rDirty
    /\ Msgs(reminders) = {2}
    /\ remindersFile = ValidFile(reminders)

\* C3: no reminder is attempted, delivered or removed by a sweep whose clock
\* reading is earlier than the reminder's due_time; a sweep selects every
\* reminder whose due_time is not later than its clock reading, attempts each
\* of them once, and a reminder it has delivered is delivered once and is no
\* longer in the list.
C3_NeverBeforeDue ==
    /\ \A m \in Created :
          /\ rs.cur < dueOf[m] => att[m] = 0 /\ sent[m] = 0 /\ m \in Msgs(reminders)
          /\ attSweep[m] > 0 => dueOf[m] <= rs.cur
          /\ sent[m] <= att[m]
          /\ sent[m] >= 1 => sent[m] = 1 /\ m \notin Msgs(reminders)
    /\ \A k \in 1..Len(rs.due) : rs.due[k].due_time <= rs.cur
    /\ \A k \in 1..Len(reminders) :
          reminders[k].due_time <= rs.cur => InList(rs.due, reminders[k])
    /\ rs.pc = "sleep" => \A m \in Selected : attSweep[m] = 1

\* A reminder set at 0 with a delay of 30 seconds: the sweep at 29 has made
\* no attempt, and the sweep at 31 has made the one attempt there is,
\* delivered the reminder and removed it.
C3_Witness ==
    /\ rs.pc = "sleep" /\ rs.prev = 29 /\ rs.cur = 31
    /\ InList(rs.due, [message |-> 1, due_time |-> 30, set_time |-> 0])
    /\ att[1] = 1 /\ attSweep[1] = 1 /\ sent[1] = 1
    /\ 1 \notin Msgs(reminders)
    /\ 1 \notin FileMsgs(remindersFile)

-----------------------------------------------------------------------------
(* Properties of the ticket lifecycle                                      *)

\* The channels of the first n guilds of tk, in the order the two for loops
\* of check_ticket_timeouts reach them.
RECURSIVE FlatUpTo(_, _)
FlatUpTo(tk, n) ==
    IF n = 0 THEN <<>> ELSE FlatUpTo(tk, n - 1) \o tk.chans[tk.guilds[n]]

Flat(tk) == FlatUpTo(tk, Len(tk.guilds))

\* The number of tickets the loops have reached when the sweep is at s.
Pos(tk, s) == Len(FlatUpTo(tk, s.gi - 1)) + s.ti

\* In a step of the sweep, the loops test the tickets Flat(tickets)[k] for
\* k in SweepBefore+1 .. SweepAfter.
SweepBefore == IF sw.pc = "sleep" THEN 0 ELSE Pos(tickets, sw)
SweepAfter ==
    CASE sw'.pc = "history" -> Pos(tickets, sw')
      [] sw'.pc = "sleep" -> Len(Flat(tickets))
      [] OTHER -> SweepBefore

\* The close sequence of the sweep, or of close_ticket in slot s, ends in
\* this step because reading the history or archiving the transcript raised.
SweepTranscriptFails ==
    /\ sw.pc \in {"history", "archive"}
    /\ sw' # sw
    /\ ~(sw'.pc \in {"archive", "delete"} /\ sw'.gi = sw.gi /\ sw'.ti = sw.ti)
CloseTranscriptFails(s) ==
    /\ closeH[s].pc \in {"history", "archive"}
    /\ closeH'[s].pc = "reply"

\* A !closeticket message for channel ch reaches the bot in this step, in
\* slot s.
CloseRequested(s, ch) ==
    /\ closeH[s].pc = "idle"
    /\ closeH'[s].pc # "idle"
    /\ closeH'[s].ch = ch

\* C4: a close request on a ticket whose status is closed is answered
\* "already closed" and changes nothing of the record, and no step changes
\* the status, closed_by or closed_at of a closed ticket.
C4_CloseIsIdempotent ==
    [][ /\ \A s \in CloseSlots, ch \in Chans :
              (CloseRequested(s, ch) /\ tickets.rec[ch].status = "closed") =>
                  /\ closeH'[s].pc = "reply"
                  /\ closeH'[s].text = "already_closed"
                  /\ tickets'.rec[ch] = tickets.rec[ch]
        /\ \A ch \in Chans :
              tickets.rec[ch].status = "closed" =>
                  /\ tickets'.rec[ch].status = "closed"
                  /\ tickets'.rec[ch].closed_by = tickets.rec[ch].closed_by
                  /\ tickets'.rec[ch].closed_at = tickets.rec[ch].closed_at ]_vars

\* C5: of the tickets it tests, the sweep starts to close exactly those that
\* are open, whose channel the guild still has and for which its clock
\* reading minus last_activity is greater than 86400 (one at 86399 or 86400
\* is passed over, one at 86401 is taken); and when the channel of such a
\* ticket has been deleted the ticket is closed.
C5_ClosesExactlyPastThreshold ==
    [][ sw' # sw =>
          /\ \A k \in (SweepBefore + 1)..SweepAfter :
                LET ch == Flat(tickets)[k]
                    taken == k = SweepAfter /\ sw'.pc = "history"
                IN  taken <=> /\ tickets.rec[ch].status = "open"
                              /\ chanAlive[ch]
                              /\ sw'.cur - tickets.rec[ch].last_activity > 86400
          /\ (sw.pc = "delete" /\ sw'.pc = "notify") =>
                tickets'.rec[SwChan].status = "closed" ]_vars

\* The sweep that read the clock at 86401 has ended: it has closed a ticket
\* last active at 0 and left open one last active at 1, whose channel exists.
C5_Witness ==
    /\ sw.pc = "sleep" /\ sw.cur = 86401
    /\ \E a, b \in Chans :
          /\ tickets.rec[a].status = "closed" /\ tickets.rec[a].last_activity = 0
          /\ tickets.rec[a].closed_by = None
          /\ tickets.rec[b].status = "open" /\ tickets.rec[b].last_activity = 1
          /\ chanAlive[b]

\* C7: when reading the history or archiving the transcript fails during a
\* close, manual or by the sweep, the ticket ends with status closed.
C7_CloseSurvivesTranscriptFailure ==
    [][ /\ SweepTranscriptFails => tickets'.rec[SwChan].status = "closed"
        /\ \A s \in CloseSlots :
              CloseTranscriptFails(s) => tickets'.rec[closeH[s].ch].status = "closed" ]_vars

\* C8: the sweep task never ends, whatever is opened while it is suspended.
C8_SweepNeverEnds == sw.pc # "dead"

\* C9: while a sweep is suspended, no step changes what the sweep's test
\* (status open and its clock reading minus last_activity greater than
\* 86400) gives for a ticket the sweep has yet to reach.
C9_DecidedAtSweepStart ==
    [][ (sw.pc \in SwPcs /\ sw' = sw) =>
          \A k \in (Pos(tickets, sw) + 1)..Len(Flat(tickets)) :
              LET ch == Flat(tickets)[k]
              IN  (tickets'.rec[ch].status = "open"
                     /\ sw.cur - tickets'.rec[ch].last_activity > 86400)
                  <=> (tickets.rec[ch].status = "open"
                         /\ sw.cur - tickets.rec[ch].last_activity > 86400) ]_vars

\* The closer of the request in slot s neither owns the ticket nor has
\* manage_channels.
Unauthorized(h) == h.closer # tickets.rec[h.ch].user_id /\ ~h.manage

\* C10 (as stated): a close sequence is in progress only for a closer who
\* owns the ticket or has manage_channels, and a request by anyone else is
\* refused and changes neither the tickets, nor the file, nor the channels.
C10_RefusalChangesNothing ==
    /\ [](\A s \in CloseSlots :
            closeH[s].pc \in {"history", "archive", "delete"} => ~Unauthorized(closeH[s]))
    /\ [][ \A s \in CloseSlots, ch \in Chans :
              (CloseRequested(s, ch) /\ Tracked(tickets, ch) /\ Unauthorized(closeH'[s])) =>
                  /\ closeH'[s].pc = "reply" /\ closeH'[s].text = "forbidden"
                  /\ tickets' = tickets
                  /\ ticketsFile' = ticketsFile
                  /\ chanAlive' = chanAlive ]_vars

\* C10 (amended): a close sequence is in progress only for a closer who owns
\* the ticket or has manage_channels; a request by anyone else is refused,
\* deletes no channel and changes nothing of the tickets but the
\* last_activity of the ticket, which becomes the time of the request, and
\* the file is saved with it; the answer changes nothing at all.
C10_RefusalOnlyTouches ==
    /\ [](\A s \in CloseSlots :
            closeH[s].pc \in {"history", "archive", "delete"} => ~Unauthorized(closeH[s]))
    /\ [][ \A s \in CloseSlots, ch \in Chans :
              /\ (CloseRequested(s, ch) /\ Tracked(tickets, ch) /\ Unauthorized(closeH'[s])) =>
                    /\ closeH'[s].pc = "reply" /\ closeH'[s].text = "forbidden"
                    /\ tickets' = [tickets EXCEPT !.rec[ch].last_activity = now]
                    /\ ticketsFile' = ValidFile(tickets')
                    /\ chanAlive' = chanAlive
              /\ (closeH[s].pc = "reply" /\ closeH[s].text = "forbidden"
                    /\ closeH'[s] # closeH[s]) =>
                    /\ closeH'[s] = IdleClose
                    /\ UNCHANGED <<tickets, ticketsFile, chanAlive>> ]_vars

\* A member who neither owns the open ticket nor has manage_channels has
\* been refused at time 1: the ticket is open, its channel exists and its
\* last_activity is 1.
C10_Witness ==
    \E s \in CloseSlots :
        /\ closeH[s].pc = "reply" /\ closeH[s].text = "forbidden"
        /\ closeH[s].closer = 2 /\ ~closeH[s].manage
        /\ now = 1
        /\ tickets.rec[closeH[s].ch].status = "open"
        /\ tickets.rec[closeH[s].ch].user_id = 1
        /\ tickets.rec[closeH[s].ch].closed_by = None
        /\ tickets.rec[closeH[s].ch].last_activity = 1
        /\ chanAlive[closeH[s].ch]
        /\ ticketsFile = ValidFile(tickets)

-----------------------------------------------------------------------------
(* Properties of the store                                                 *)

\* C6: when the process was killed while json.dump was writing, the
\* collection the next start loads is the last one written completely.
C6_CrashKeepsPreviousVersion ==
    (st.pc = "idle" /\ st.fresh /\ st.crashedAt = "dump") => st.mem = st.prev

-----------------------------------------------------------------------------
(* Further properties of the ticket lifecycle                              *)

\* C11: no step takes a ticket whose status is closed back to open or out of
\* the tickets collection: its status stays closed and its channel id stays
\* where it is in its guild's dict.
C11_ClosedIsTerminal ==
    [][ \A ch \in Chans :
          tickets.rec[ch].status = "closed" =>
              /\ tickets'.rec[ch].status = "closed"
              /\ \A g \in Guilds :
                    InList(tickets.chans[g], ch) =>
                        /\ InList(tickets'.chans[g], ch)
                        /\ HasGuild(tickets', g) ]_vars

\* A ticket closed at 0 has had a message at 1, after which another ticket
\* has been opened: the first is still closed and still in the collection.
C11_Witness ==
    \E a, b \in Chans :
        /\ a # b
        /\ tickets.rec[a].status = "closed" /\ tickets.rec[a].closed_at = 0
        /\ tickets.rec[a].last_activity = 1
        /\ tickets.rec[b].status = "open"
        /\ \E g \in Guilds : InList(tickets.chans[g], a) /\ InList(tickets.chans[g], b)

\* The ticket of channel ch is closed in the collection and in the file.
ClosedEverywhere(tk, file, ch) ==
    /\ tk.rec[ch].status = "closed"
    /\ file.st = "valid"
    /\ file.data.rec[ch].status = "closed"

\* C12: the step in which the notification of the owner ends, having gone
\* through or raised, after the sweep or close_ticket has closed a ticket,
\* changes neither the tickets nor the file, and the ticket is closed in
\* both.
C12_NotifyFailureKeepsClose ==
    [][ /\ (sw.pc = "notify" /\ sw' # sw) =>
              /\ UNCHANGED <<tickets, ticketsFile>>
              /\ ClosedEverywhere(tickets', ticketsFile', SwChan)
        /\ \A s \in CloseSlots :
              (closeH[s].pc = "notify" /\ closeH'[s] # closeH[s]) =>
                  /\ UNCHANGED <<tickets, ticketsFile>>
                  /\ ClosedEverywhere(tickets', ticketsFile', closeH[s].ch) ]_vars

\* close_ticket has closed a ticket and the notification of its owner has
\* raised: the handler is about to report the error, and the ticket is
\* closed in memory and in the file.
C12_Witness ==
    \E s \in CloseSlots :
        /\ closeH[s].pc = "reply" /\ closeH[s].text = "error" /\ closeH[s].at = "notify"
        /\ ClosedEverywhere(tickets, ticketsFile, closeH[s].ch)
        /\ tickets.rec[closeH[s].ch].closed_by = 1
        /\ ~chanAlive[closeH[s].ch]

\* C20: every ticket whose status is closed has closed_by and closed_at
\* recorded, whether close_ticket or the sweep has closed it.
C20_ClosedHasCloser ==
    \A ch \in Chans :
        tickets.rec[ch].status = "closed" =>
            tickets.rec[ch].closed_by # None /\ tickets.rec[ch].closed_at # None

\* The sweep's close sequence for the ticket it is at ends in this step in
\* the except clause (a collaborator call has raised).
SweepItemFails ==
    /\ sw.pc \in {"history", "archive", "delete"}
    /\ sw' # sw
    /\ ~(sw'.pc \in {"archive", "delete", "notify"} /\ sw'.gi = sw.gi /\ sw'.ti = sw.ti)

\* C19 (tickets): when the close of one eligible ticket fails, the sweep
\* goes on: it is at a later ticket that it starts to close, or it has
\* passed every other ticket and sleeps until its next iteration.
C19_SweepGoesOnAfterFailure ==
    [][ SweepItemFails =>
          \/ sw'.pc = "sleep"
          \/ sw'.pc = "history" /\ Pos(tickets, sw') > Pos(tickets, sw) ]_vars

\* C13: the last_activity of every tracked ticket is the time a member's
\* message was last seen in its channel (the time the ticket was stored,
\* when none has been seen since).
C13_EveryMessageTouches ==
    \A ch \in Chans : Tracked(tickets, ch) => tickets.rec[ch].last_activity = heard[ch]

-----------------------------------------------------------------------------
(* Further properties of the store                                         *)

\* C17: load_data never hands an exception to its caller, and the collection
\* a start loads from a file that is missing, cannot be opened or holds no
\* complete document is the empty list for the reminders and the empty dict
\* for the polls and the tickets.
C17_LoadFallsBackToEmpty ==
    /\ st.mem # Raised
    /\ (st.fresh /\ st.from # "valid") =>
          /\ st.pc = "idle"
          /\ st.mem = [type |-> IF st.kind = "reminders" THEN "list" ELSE "dict",
                       items |-> <<>>]

\* The reminders were saved completely, then killed during the dump of a
\* later save; the start has found no document and loaded the empty list.
C17_Witness ==
    /\ st.kind = "reminders" /\ st.fresh /\ st.from = "partial"
    /\ st.crashedAt = "dump"
    /\ st.prev.items # <<>>
    /\ st.mem = EmptyList

\* C18: whenever a save has completed, loading the file gives the collection
\* that was saved, entry for entry with the same keys and the same fields.
C18_SaveLoadRoundTrip ==
    st.file.st = "valid" => load_data(st.file, DefaultOf(st.kind)) = st.prev

\* A collection of two polls has been saved, the process killed and started:
\* what it has loaded is what it had saved.
C18_Witness ==
    /\ st.kind = "polls" /\ st.fresh /\ st.from = "valid" /\ st.pc = "idle"
    /\ Len(st.prev.items) = 2
    /\ st.mem = st.prev

-----------------------------------------------------------------------------
(* Properties of the polls                                                 *)

\* C14: whatever the order in which the endpoll requests for one poll are
\* served, the results of the poll are reported at most once and its record
\* is removed at most once.
C14_EndedAtMostOnce ==
    \A p \in PollIds : ended[p].reported <= 1 /\ ended[p].removed <= 1

\* C15: the tally has one pair (option, count) for every option, the count
\* being the reaction count of the option's marker less the bot's own
\* reaction; the pairs descend by count, and pairs of equal count are in the
\* order in which the options were created.
C15_TallySortedStable ==
    (tally.done /\ tally.results # Raised) =>
        LET r == tally.results
        IN  /\ Len(r) = tally.n
            /\ \A i \in 1..tally.n :
                  Cardinality({k \in 1..Len(r) : r[k][1] = i}) = 1
            /\ \A k \in 1..Len(r) : r[k][2] = tally.counts[r[k][1]] - 1
            /\ \A j, k \in 1..Len(r) :
                  j < k => \/ r[j][2] > r[k][2]
                           \/ r[j][2] = r[k][2] /\ r[j][1] < r[k][1]

\* Options A, B, C with 3, 3 and 1 votes besides the bot's reactions: the
\* tally is A: 3, B: 3, C: 1.
C15_Witness ==
    /\ tally.done
    /\ tally.counts = <<4, 4, 2>>
    /\ tally.results = << <<1, 3>>, <<2, 3>>, <<3, 1>> >>

-----------------------------------------------------------------------------
(* Properties of the requests that fail validation                         *)

\* The time arguments that are no number followed by s, m, h or d, or that
\* give no positive duration.
InvalidTimes ==
    { <<"0", "s">>, <<"-", "1", "s">>, <<"5", "x">>, <<"a", "s">>, <<"s">> }

\* The step is a request that fails validation, posted in channel ch: an
\* advpoll with fewer than 2 or more than 10 options, a remind with an
\* invalid time, or a closeticket in a channel that is no tracked ticket's.
RefusedRequest(ch) ==
    \/ /\ pollH.pc = "idle" /\ pollH' # pollH
       /\ \E n \in OptionCounts, o \in SaveOutcomes :
             (n < 2 \/ n > 10) /\ poll_request(ch, n, o)
    \/ /\ remindH'.ch = ch
       /\ \E time \in InvalidTimes, o \in SaveOutcomes :
             set_reminder(ch, time, TRUE, now, o, o)
    \/ /\ ~Tracked(tickets, ch) /\ closeH' # closeH
       /\ \E s \in CloseSlots, closer \in Users, manage \in BOOLEAN, o \in SaveOutcomes :
             close_request(s, ch, closer, manage, o)

\* C16 (as stated): a request that fails validation leaves the polls, the
\* reminders, the tickets and their three files exactly as they were.
C16_InvalidChangesNothing ==
    [][ \A ch \in 0..MaxTickets :
          RefusedRequest(ch) =>
              UNCHANGED <<polls, pollsFile, reminders, remindersFile, tickets,
                          ticketsFile>> ]_vars

\* C16 (amended): a request that fails validation leaves the polls, the
\* reminders and their files exactly as they were; of the tickets it changes
\* nothing where it is posted in a channel that is no tracked ticket's, and
\* nothing but the ticket's last_activity, which becomes the time of the
\* request and is saved, where it is posted in the channel of a tracked
\* ticket.
C16_InvalidOnlyTouches ==
    [][ \A ch \in 0..MaxTickets :
          RefusedRequest(ch) =>
              /\ UNCHANGED <<polls, pollsFile, reminders, remindersFile>>
              /\ IF Tracked(tickets, ch)
                 THEN /\ tickets' = [tickets EXCEPT !.rec[ch].last_activity = now]
                      /\ ticketsFile' = ValidFile(tickets')
                 ELSE UNCHANGED <<tickets, ticketsFile>> ]_vars

\* At time 1, with a reminder and a ticket stored at time 0: a remind with
\* an invalid time has been posted in the ticket's channel, an advpoll with
\* too few options and a closeticket outside any ticket channel have been
\* refused; the reminder is as it was and the ticket's last_activity is 1.
C16_Witness ==
    /\ now = 1
    /\ remindH = [text |-> "invalid", ch |-> 1]
    /\ Len(reminders) = 1 /\ reminders[1].set_time = 0
    /\ remindersFile = ValidFile(reminders)
    /\ pollH.pc = "reply" /\ pollH.text = "few"
    /\ polls = <<>>
    /\ \E s \in CloseSlots : closeH[s].pc = "reply" /\ closeH[s].text = "not_ticket"
    /\ tickets.rec[1].status = "open"
    /\ tickets.rec[1].last_activity = 1
    /\ ticketsFile = ValidFile(tickets)

-----------------------------------------------------------------------------
(* Further properties of the reminder scheduler                            *)

\* C23: in one cycle of check_reminders the reminders file is written once,
\* after the last due reminder of the cycle has been processed: no step of
\* the scheduler writes the file while due reminders of the cycle are still
\* to be processed.
C23_SavedOncePerCycle ==
    [][ (rs' # rs /\ remindersFile' # remindersFile) => rs.i = Len(rs.due) ]_vars

\* C26: the scheduler removes a reminder only where it resumes from the
\* channel.send of that reminder: no reminder leaves the list in a step in
\* which no send was attempted for it.
C26_RemovedOnlyAfterSend ==
    [][ (rs' # rs /\ Len(reminders') < Len(reminders)) => rs.pc = "send" ]_vars

\* C25: a save that fails leaves the file as it was or truncated and the
\* operation goes on with its mutation in memory (the remind command
\* confirms, the scheduler moves to the next reminder); and whenever the
\* last save of the reminders has succeeded, the file holds the whole list
\* that is in memory, the mutations made while saves were failing included.
C25_FailedSaveKeepsMutation ==
    /\ [](~rDirty => FileReminders(remindersFile) = reminders)
    /\ [][ (rDirty' /\ reminders' # reminders) =>
              /\ remindersFile' \in {remindersFile, PartialFile}
              /\ rs' # rs \/ remindH'.text = "set" ]_vars

\* Two reminders have been accepted and are in memory while the file, which
\* the last save has truncated, holds neither of them.
C25_Witness ==
    /\ rDirty
    /\ Len(reminders) = 2
    /\ remindersFile = PartialFile
    /\ remindH.text = "set"

-----------------------------------------------------------------------------
(* Properties of create_ticket                                             *)

\* The step is a call of create_ticket's that raises: the creation of the
\* category or its permissions, the creation of the channel, or the
\* channel's permissions or first message.
FailedOpen ==
    \/ \E s \in OpenSlots : open_category(s, FALSE)
    \/ \E s \in OpenSlots : open_channel(s, FALSE)
    \/ \E s \in OpenSlots, o \in SaveOutcomes : open_setup(s, FALSE, o)

-----------------------------------------------------------------------------
(* Further properties of the inactivity sweep                              *)

Stale(ch) ==
    /\ Tracked(tickets, ch)
    /\ tickets.rec[ch].status = "open"
    /\ now - tickets.rec[ch].last_activity > 86400

\* C22: under a fair sweep, an open ticket whose inactivity exceeds the
\* threshold and whose channel can no longer be resolved is marked closed in
\* the end, unless there is activity on it first.
C22_StaleEventuallyClosed ==
    \A ch \in Chans :
        (Stale(ch) /\ ~chanAlive[ch]) ~> (tickets.rec[ch].status = "closed" \/ ~Stale(ch))

-----------------------------------------------------------------------------
(* Properties of set_reminder                                              *)

\* C29: every reminder in the list is due later than it was set.
C29_DueAfterSet ==
    \A k \in 1..Len(reminders) : reminders[k].due_time > reminders[k].set_time

-----------------------------------------------------------------------------
(* Properties of the reminders across a crash                              *)

\* C30: with the process killed at any point and started again from the
\* file, no reminder's notification is delivered more than once.
C30_NoResendAfterCrash ==
    \A m \in 1..MaxReminders : sent[m] <= 1

-----------------------------------------------------------------------------
(* Properties of the files on a disk that does not fail                    *)

-----------------------------------------------------------------------------
(* Properties of the transcript messages                                   *)

\* C27: every message sent to the archive channel, header and chunk
\* together, has at most 2000 characters, whatever the transcript's length.
C27_MessagesWithinLimit ==
    \A k \in 1..Len(archive.sent) : archive.sent[k] <= 2000

-----------------------------------------------------------------------------
(* Properties of the background tasks                                      *)

\* C31: however often the ready event fires, at most one reminder scheduler
\* task and at most one ticket sweep task are in their loops at any moment.
C31_OneTaskOfEachKind ==
    \A kind \in DOMAIN gw.tasks :
        Cardinality({k \in 1..Len(gw.tasks[kind]) : gw.tasks[kind][k] = "loop"}) <= 1

-----------------------------------------------------------------------------
(* Properties of the ticket numbers                                        *)

\* C32: no two tickets of one guild have channels named with the same
\* ticket number, however the ticket commands interleave.
C32_NumbersUnique ==
    \A c, d \in Chans :
        (c # d /\ Tracked(tickets, c) /\ Tracked(tickets, d)
              /\ named[c].guild = named[d].guild)
            => named[c].num # named[d].num

-----------------------------------------------------------------------------
(* Properties of the status and the channel                                *)

\* C33: where no one but the bot deletes channels, wherever the handlers
\* are suspended a ticket is closed exactly when its channel has been
\* deleted, whichever of the manual close and the sweep deleted it.
C33_ClosedIffDeleted ==
    \A c \in Chans :
        Tracked(tickets, c) => (tickets.rec[c].status = "closed" <=> ~chanAlive[c])

\* The sweep has deleted the channel and closed the ticket while a manual
\* close of the same ticket awaits its own channel.delete.
C33_Witness ==
    \E s \in CloseSlots :
        /\ closeH[s].pc = "delete"
        /\ Tracked(tickets, closeH[s].ch)
        /\ tickets.rec[closeH[s].ch].status = "closed"
        /\ tickets.rec[closeH[s].ch].closed_by = None
        /\ ~chanAlive[closeH[s].ch]

=============================================================================
